---- MODULE Spec2Model ----
(***************************************************************************)
(* A model of the per-window event manager of KAS                          *)
(* (src/src/event/manager.rs) and of the identifier-based widget lookup    *)
(* (src/src/traits.rs).                                                    *)
(*                                                                         *)
(* The module holds several specifications, one per sub-machine; each      *)
(* leaves the variables of the other sub-machines unchanged:               *)
(*   SpecPan   press grab, touch grabs and the pan-gesture list            *)
(*   SpecTree  the configuration pass and find                             *)
(*   SpecKey   focus fields, deferred queue, key routing, popups           *)
(*   SpecRoute the priority order of key routing, with a popup stack       *)
(*   SpecLookup SpecRoute in one of its windows                            *)
(*   SpecChar  key-downs and requests for character focus                  *)
(*   SpecHover the hover target, the cursor icon and the press grab        *)
(*   SpecRemove endings of grabs, touches and held keys                    *)
(*   SpecStale key-downs and hover changes that name a widget not in the   *)
(*             tree                                                        *)
(*   SpecTimer the timeouts of a window (kas-wgpu/src/window.rs)           *)
(*   SpecAction the toolkit action of a window                             *)
(*   SpecEdit  the characters an EditBox receives and the calls that set   *)
(*             its text and editable flag (widget/editbox.rs)              *)
(*   SpecSlots pan gestures of touches that arrive at distinct places      *)
(*   SpecPopupFirst events the shell routes through the popup stack        *)
(*   SpecCombo a window with a ComboBox (widget/combobox.rs)               *)
(* Conventions: Option<T> is <<>> (None) or <<x>> (Some(x)); Rust indices  *)
(* are 0-based, so element i of a Vec is seq[i + 1].                       *)
(***************************************************************************)
EXTENDS Integers, Naturals, Sequences, FiniteSets, TLC

\* ------------------------------------------------------------------ bounds
\* Platform touch identifiers are 1..MaxTouch.
MaxTouch == 3
\* A widget tree has up to MaxNodes widgets.
MaxNodes == 4
\* Keys have the scancodes 1..MaxScancode.
MaxScancode == 2
\* Up to MaxPopups popups are open at a time.
MaxPopups == 1
\* In SpecRoute the popup stack holds up to MaxStack popups.
MaxStack == 2
\* The deferred queue holds up to MaxPending notifications between two
\* deliveries.
MaxPending == 3
\* A window has up to MaxTimers timeouts.
MaxTimers == 3
\* Instants are 0..MaxInstant when a timer resume starts.
MaxInstant == 3
\* The timeouts Window::init leaves are due at 1..MaxStart.
MaxStart == 2
\* An EditBox receives up to MaxChars characters.
MaxChars == 4

\* ------------------------------------------------------- program constants
MAX_PAN_GRABS == 2
U16_MAX == 65535
U16_MOD == 65536

None == <<>>
Some(x) == <<x>>

VARIABLES
    \* ManagerState fields (manager.rs 100-133)
    mouse_grab,     \* Option<MouseGrab>
    touch_grab,     \* LinearMap<u64, TouchGrab>: a function on the grabbed touch ids
    touch_order,    \* the touch ids in the order the LinearMap stores its entries
    pan_grab,       \* SmallVec<[PanGrab; 4]>: a sequence
    modifiers,      \* ModifiersState: [alt, shift]
    char_focus,     \* bool
    sel_focus,      \* Option<WidgetId>
    nav_focus,      \* Option<WidgetId>
    nav_fallback,   \* Option<WidgetId>
    key_depress,    \* LinearMap<u32, WidgetId>: a function on the held scancodes
    popups,         \* SmallVec<[(WindowId, Popup); 16]>: a sequence of [win, parent]
    accel_layers,   \* HashMap<WidgetId, (bool, HashMap<VirtualKeyCode, WidgetId>)>
    pending,        \* SmallVec<[Pending; 8]>: a sequence of [kind, id]
    hover,          \* Option<WidgetId>
    hover_icon,     \* CursorIcon
    \* the shell: the cursor icon of the last ShellWindow::set_cursor_icon
    cursor_icon,
    \* the window: the widgets that take navigation focus (key_nav() holds)
    key_nav,
    \* the widget tree: the parent of each node, and each node's WidgetId
    tree_parent,
    core_id,
    \* the process has panicked (overflow check, assert!, index out of bounds)
    panicked,
    \* history: the last call made on the manager and its result
    op,
    \* history: what the last call did outside the manager's fields, as
    \* [sent, redraw, closed, order]: events delivered to widgets, redraws
    \* requested, windows closed, and the deliveries and closings in the order
    \* they were made
    out,
    \* history: the widget named by the last set_char_focus(Some(_))
    last_char,
    \* history: the last lookup, as [from, id, res]
    found,
    \* Window fields (kas-wgpu window.rs 31, 197)
    timeouts,       \* Vec<(usize, Instant, Option<Duration>)>: a sequence of [id, at, dur]
    action,         \* TkWindow::action: TkAction
    \* the clock read by Instant::now()
    now,
    \* history: the callbacks the last timer_resume triggered, in order, and the
    \* wake instant it returned
    fired,
    resume,
    \* history: what the clock read after each of those callbacks
    read,
    \* history: the result of the last pop_action, and the actions sent since
    popped,
    since_pop,
    \* EditBox fields (editbox.rs 123-139)
    editable,       \* bool
    text,           \* String: a sequence of characters
    old_state,      \* Option<String>
    last_edit,      \* LastEdit
    \* the toolkit's clipboard: Option<String>
    clipboard,
    \* history: the text the EditBox was made with and the characters it has
    \* received, each with the text it left, as [c, text]
    received,
    \* the window: the widgets that are ComboBoxes
    combo,
    \* ComboBox field (combobox.rs 31): popup_id, Option<WindowId>
    popup_id,
    \* the window: the widgets that are disabled (is_disabled() holds)
    disabled

panVars == <<mouse_grab, touch_grab, touch_order, pan_grab, panicked>>
focusVars == <<modifiers, char_focus, sel_focus, nav_focus, nav_fallback, key_depress,
               popups, accel_layers, pending, last_char, key_nav, combo, popup_id, disabled>>
keyVars == <<focusVars, out>>
treeVars == <<tree_parent, core_id, found>>
hoverVars == <<hover, hover_icon, cursor_icon>>
timerVars == <<timeouts, now, fired, resume, read>>
actionVars == <<action, popped, since_pop>>
editVars == <<editable, text, old_state, last_edit, clipboard, received>>
vars == <<panVars, keyVars, treeVars, hoverVars, timerVars, actionVars, editVars, op>>

\* The widgets that request grabs.  Gestures are keyed by widget and held in
\* an index-addressed list: two widgets give a list of up to two gestures.
PanWidgets == {1, 2}
TouchIds == 1..MaxTouch
Buttons == {"Left", "Right"}
\* GrabMode has five variants; request_grab only tests mode against Grab and
\* stores it, so Grab and one pan mode are enumerated.
GrabModes == {"Grab", "PanFull"}

\* The source argument of a press: 0 is the mouse, t >= 1 is touch t.
MouseSource == 0
\* Coordinates are only stored and copied, never compared: they are numbers,
\* 0 is Coord::default().
DefaultCoord == 0

NoPan == <<U16_MAX, 0>>
DefaultCoords == <<<<DefaultCoord, DefaultCoord>>, <<DefaultCoord, DefaultCoord>>>>

\* ------------------------------------------------------------ pan helpers
\* The three ManagerState methods work on the record
\*   [mg, tg, ord, pg, panic, wrapped]
\* where ord is the order in which touch_grab stores its entries, panic says
\* the call panicked in every build and wrapped says a u16 subtraction
\* underflowed (a panic with overflow checks, a wrap without).

PanState == [mg |-> mouse_grab, tg |-> touch_grab, ord |-> touch_order, pg |-> pan_grab,
             panic |-> FALSE, wrapped |-> FALSE]

RemoveAt(seq, i) == SubSeq(seq, 1, i) \o SubSeq(seq, i + 2, Len(seq))

\* p0 - 1 on u16 without overflow checks
WrappingDec(p0) == (p0 - 1 + U16_MOD) % U16_MOD

\* manager.rs 180-182 / 186-188: the fix-up of one stored pan index
FixPanIndex(p, index) ==
    IF p[1] >= index /\ p[1] # U16_MAX THEN <<WrappingDec(p[1]), p[2]>> ELSE p

FixUnderflows(p, index) == p[1] >= index /\ p[1] # U16_MAX /\ p[1] = 0

\* ManagerState::remove_pan (manager.rs 175-190)
remove_pan(st, index) ==
    [st EXCEPT
        !.pg = RemoveAt(st.pg, index),
        !.mg = IF st.mg = None THEN None
               ELSE Some([st.mg[1] EXCEPT !.pan_grab = FixPanIndex(@, index)]),
        !.tg = [t \in DOMAIN st.tg |->
                   [st.tg[t] EXCEPT !.pan_grab = FixPanIndex(@, index)]],
        !.wrapped = \/ st.wrapped
                    \/ st.mg # None /\ FixUnderflows(st.mg[1].pan_grab, index)
                    \/ \E t \in DOMAIN st.tg : FixUnderflows(st.tg[t].pan_grab, index)]

\* Indices (0-based) of the gestures whose target is id
GesturesOn(pg, id) == {gi \in 0..(Len(pg) - 1) : pg[gi + 1].id = id}

Min(S) == CHOOSE x \in S : \A y \in S : x <= y

NewPanGrab(id, mode, source_is_touch, coord) ==
    [id |-> id, mode |-> mode, source_is_touch |-> source_is_touch, n |-> 1,
     coords |-> <<<<coord, coord>>, DefaultCoords[2]>>]

\* set_pan_on that starts a gesture of its own for every point
set_pan_on_apart(st, id, mode, source_is_touch, coord) ==
    <<[st EXCEPT !.pg = Append(st.pg, NewPanGrab(id, mode, source_is_touch, coord))],
      <<Len(st.pg), 0>>>>

\* set_pan_on that adds the point to the gesture on id whatever its source
set_pan_on_mixed(st, id, mode, source_is_touch, coord) ==
    LET on == GesturesOn(st.pg, id) IN
    IF on # {}
    THEN LET gi == Min(on)
             index == st.pg[gi + 1].n
             g1 == IF index < MAX_PAN_GRABS
                   THEN [st.pg[gi + 1] EXCEPT !.coords[index + 1] = <<coord, coord>>]
                   ELSE st.pg[gi + 1]
         IN <<[st EXCEPT !.pg[gi + 1] = [g1 EXCEPT !.n = index + 1]], <<gi, index>>>>
    ELSE <<[st EXCEPT !.pg = Append(st.pg, NewPanGrab(id, mode, source_is_touch, coord))],
           <<Len(st.pg), 0>>>>

\* ManagerState::set_pan_on (manager.rs 137-173).  The result is the pair
\* <<state, (u16, u16) returned>>.  The loop stops at the first gesture on id.
set_pan_on(st, id, mode, source_is_touch, coord) ==
    LET on == GesturesOn(st.pg, id) IN
    IF on # {} /\ st.pg[Min(on) + 1].source_is_touch = source_is_touch
    THEN LET gi == Min(on)
             index == st.pg[gi + 1].n
             g1 == IF index < MAX_PAN_GRABS
                   THEN [st.pg[gi + 1] EXCEPT !.coords[index + 1] = <<coord, coord>>]
                   ELSE st.pg[gi + 1]
             g2 == [g1 EXCEPT !.n = index + 1]
         IN <<[st EXCEPT !.pg[gi + 1] = g2], <<gi, index>>>>
    ELSE LET s1 == IF on # {} THEN remove_pan(st, Min(on)) ELSE st
             gj == Len(s1.pg)
         IN <<[s1 EXCEPT !.pg = Append(s1.pg, NewPanGrab(id, mode, source_is_touch, coord))],
              <<gj, 0>>>>

\* manager.rs 199-201: for i in g.1 .. n-1 { coords[i] = coords[i + 1] };
\* n is the count after the decrement.  coords has MAX_PAN_GRABS entries, so a
\* read of coords[i + 1] with i + 1 >= MAX_PAN_GRABS is out of bounds.
RECURSIVE ShiftCoords(_, _, _)
ShiftCoords(coords, i, end) ==
    IF i >= end THEN coords
    ELSE ShiftCoords([coords EXCEPT ![i + 1] = coords[i + 2]], i + 1, end)

ShiftOutOfBounds(g1, n) == g1 < n - 1 /\ n - 1 >= MAX_PAN_GRABS

\* manager.rs 207-216: the loop over touch_grab, which iter_mut takes in the
\* order the map stores its entries; todo is what is left of that order.  Each
\* iteration changes its own entry; coords[MAX_PAN_GRABS - 1] of gesture g.0
\* is written by each touch that moves into that slot, the last one staying.
RECURSIVE FixTouchSlots(_, _, _)
FixTouchSlots(st, g, todo) ==
    IF todo = <<>> THEN st
    ELSE LET t == Head(todo)
             p == st.tg[t].pan_grab
         IN IF p[1] = g[1] /\ p[2] > g[2]
            THEN LET p1 == p[2] - 1
                     v == st.tg[t].coord
                     s1 == [st EXCEPT !.tg[t].pan_grab = <<p[1], p1>>]
                     s2 == IF p1 = MAX_PAN_GRABS - 1
                           THEN [s1 EXCEPT !.pg[g[1] + 1].coords[p1 + 1] = <<v, v>>]
                           ELSE s1
                 IN FixTouchSlots(s2, g, Tail(todo))
            ELSE FixTouchSlots(st, g, Tail(todo))

\* remove_pan_grab that releases no point
remove_pan_grab_idle(st, g) == st

\* ManagerState::remove_pan_grab (manager.rs 192-217)
remove_pan_grab(st, g) ==
    IF g[1] < Len(st.pg)
    THEN LET grab == st.pg[g[1] + 1]
             n == grab.n - 1
         IN IF n = 0 THEN remove_pan(st, g[1])
            ELSE IF ~grab.source_is_touch THEN [st EXCEPT !.panic = TRUE]
            ELSE IF ShiftOutOfBounds(g[2], n) THEN [st EXCEPT !.panic = TRUE]
            ELSE LET s1 == [st EXCEPT !.pg[g[1] + 1] =
                               [grab EXCEPT !.n = n,
                                            !.coords = ShiftCoords(grab.coords, g[2], n - 1)]]
                 IN FixTouchSlots(s1, g, s1.ord)
    ELSE st

\* The successor of a call that ended in st.  A call that panics ends the
\* process: panicked is set and the fields keep their values from before the
\* call (nothing observes them any more).  An underflowing u16 subtraction
\* panics in a build with overflow checks and wraps in one without.
PanCommit(st) ==
    \/ /\ ~st.panic
       /\ mouse_grab' = st.mg
       /\ touch_grab' = st.tg
       /\ touch_order' = st.ord
       /\ pan_grab' = st.pg
       /\ panicked' = FALSE
    \/ /\ st.panic \/ st.wrapped
       /\ panicked' = TRUE
       /\ UNCHANGED <<mouse_grab, touch_grab, touch_order, pan_grab>>

\* The history variable: the name of the last call and whether it took effect
\* (request_grab returned true; an ending found the grab it was to end).
OpRec(name, ret) == [name |-> name, ret |-> ret]

\* A call on the manager returns: it is recorded, and the timers and the
\* action of the window, the clock and the edit box are as before
Returns(name, ret) ==
    /\ op' = OpRec(name, ret)
    /\ UNCHANGED <<timerVars, actionVars, editVars>>

\* ------------------------------------------------------------ pan actions
\* A call that delivered nothing, asked for no redraw and closed no window
NoOut == [sent |-> <<>>, redraw |-> <<>>, closed |-> <<>>, order |-> <<>>]

CursorIcons == {"Default", "Text", "Grabbing"}

\* ShellWindow::set_cursor_icon is called: the call is kept in the history
SetCursorIcon(icon) == [NoOut EXCEPT !.order = <<<<"cursor", icon>>>>]

\* The cursor a widget asks for with its grab: widget 2 drags its content
\* under a Grabbing cursor, the other widgets name none.
GrabCursor(id) == IF id = 2 THEN Some("Grabbing") ELSE None

\* What a call on the grabs leaves alone
PanFrame == UNCHANGED <<focusVars, treeVars, hover, hover_icon>>

MouseGrabOf(id, button, mode, pan) ==
    [pan_grab |-> pan, mode |-> mode, button |-> button, start_id |-> id,
     depress |-> Some(id)]

TouchGrabOf(id, coord, mode, pan) ==
    [pan_grab |-> pan, mode |-> mode, coord |-> coord, start_id |-> id,
     depress |-> Some(id), cur_id |-> Some(id)]

\* request_grab that lets a second press take the grab over
RequestGrabMouse_takeover(id, button, mode, coord) ==
    /\ ~panicked
    /\ PanFrame
    /\ out' = IF GrabCursor(id) # None THEN SetCursorIcon(GrabCursor(id)[1]) ELSE NoOut
    /\ cursor_icon' = IF GrabCursor(id) # None THEN GrabCursor(id)[1] ELSE cursor_icon
    /\ LET r == IF mode # "Grab"
                THEN set_pan_on(PanState, id, mode, FALSE, coord)
                ELSE <<PanState, NoPan>>
           st == [r[1] EXCEPT !.mg = Some(MouseGrabOf(id, button, mode, r[2]))]
       IN /\ PanCommit(st)
          /\ Returns("request_grab_mouse", TRUE)

\* Manager::request_grab with PressSource::Mouse(button, _): rejected while a
\* press grab is active; otherwise the grab is created, with a point in the
\* pan gesture of id unless mode is Grab, and the shell shows the cursor the
\* widget names for the grab.
RequestGrabMouse(id, button, mode, coord) ==
    /\ ~panicked
    /\ PanFrame
    /\ out' = IF mouse_grab = None /\ GrabCursor(id) # None
              THEN SetCursorIcon(GrabCursor(id)[1]) ELSE NoOut
    /\ IF mouse_grab # None
       THEN /\ UNCHANGED <<panVars, cursor_icon>>
            /\ Returns("request_grab_mouse", FALSE)
       ELSE LET r == IF mode # "Grab"
                     THEN set_pan_on(PanState, id, mode, FALSE, coord)
                     ELSE <<PanState, NoPan>>
                st == [r[1] EXCEPT !.mg = Some(MouseGrabOf(id, button, mode, r[2]))]
            IN /\ PanCommit(st)
               /\ cursor_icon' = IF GrabCursor(id) # None THEN GrabCursor(id)[1]
                                 ELSE cursor_icon
               /\ Returns("request_grab_mouse", TRUE)

\* Manager::request_grab with PressSource::Touch(touch_id): rejected while
\* that touch has a grab.  The map stores the entry of a new key after the
\* entries it has.
RequestGrabTouch(id, t, mode, coord) ==
    /\ ~panicked
    /\ PanFrame
    /\ out' = NoOut
    /\ UNCHANGED cursor_icon
    /\ IF t \in DOMAIN touch_grab
       THEN /\ UNCHANGED panVars
            /\ Returns("request_grab_touch", FALSE)
       ELSE LET r == IF mode # "Grab"
                     THEN set_pan_on(PanState, id, mode, TRUE, coord)
                     ELSE <<PanState, NoPan>>
                new == TouchGrabOf(id, coord, mode, r[2])
                st == [r[1] EXCEPT !.tg = [u \in DOMAIN r[1].tg \cup {t} |->
                                              IF u = t THEN new ELSE r[1].tg[u]],
                                   !.ord = Append(r[1].ord, t)]
            IN /\ PanCommit(st)
               /\ Returns("request_grab_touch", TRUE)

\* manager.rs 414-422: end_mouse_grab returns at once
NoGrabFor(button) == mouse_grab = None \/ mouse_grab[1].button # button

\* Manager::end_mouse_grab (manager.rs 413-429)
EndMouseGrab(button) ==
    /\ ~panicked
    /\ PanFrame
    /\ IF NoGrabFor(button)
       THEN /\ UNCHANGED <<panVars, cursor_icon>>
            /\ out' = NoOut
            /\ Returns("end_mouse_grab", FALSE)
       ELSE LET grab == mouse_grab[1]
                st == remove_pan_grab([PanState EXCEPT !.mg = None], grab.pan_grab)
            IN /\ cursor_icon' = hover_icon
               /\ out' = [SetCursorIcon(hover_icon) EXCEPT !.redraw = <<grab.start_id>>]
               /\ PanCommit(st)
               /\ Returns("end_mouse_grab", TRUE)

\* LinearMap::remove, called at manager.rs 437: the entry stored last takes
\* the place of the entry removed (Vec::swap_remove).  i is the 1-based place
\* of the entry.
SwapRemove(seq, i) ==
    LET last == Len(seq)
    IN [k \in 1..(last - 1) |-> IF k = i THEN seq[last] ELSE seq[k]]

\* A touch ends: Manager::remove_touch (manager.rs 436-441) takes the entry
\* out of touch_grab, then the caller releases the touch's point with
\* remove_pan_grab.
TouchEnd(t) ==
    /\ ~panicked
    /\ PanFrame
    /\ out' = NoOut
    /\ UNCHANGED cursor_icon
    /\ IF t \notin DOMAIN touch_grab
       THEN /\ UNCHANGED panVars
            /\ Returns("touch_end", FALSE)
       ELSE LET grab == touch_grab[t]
                rest == [u \in DOMAIN touch_grab \ {t} |-> touch_grab[u]]
                at == CHOOSE i \in DOMAIN touch_order : touch_order[i] = t
                st == remove_pan_grab([PanState EXCEPT !.tg = rest,
                                                       !.ord = SwapRemove(touch_order, at)],
                                      grab.pan_grab)
            IN /\ PanCommit(st)
               /\ Returns("touch_end", TRUE)

\* ------------------------------------------------------------ widget tree
\* A tree of n nodes is the function tree_parent on 1..n: node 1 is the root
\* (parent 0) and the children of a node are its WidgetChildren entries
\* 0..len()-1, in ascending node order.
TreeRoot == 1

TreeShapes ==
    UNION {{p \in [1..n -> 0..(n - 1)] :
               p[TreeRoot] = 0 /\ \A k \in 2..n : p[k] >= 1 /\ p[k] < k} : n \in 1..MaxNodes}

RECURSIVE SortedSeq(_)
SortedSeq(S) == IF S = {} THEN <<>> ELSE <<Min(S)>> \o SortedSeq(S \ {Min(S)})

\* WidgetChildren: get(0), .., get(len() - 1) of node w
Children(par, w) == SortedSeq({k \in DOMAIN par : par[k] = w})

\* The nodes above b, up to the root
RECURSIVE AncestorsOf(_, _)
AncestorsOf(par, b) == IF par[b] = 0 THEN {} ELSE {par[b]} \cup AncestorsOf(par, par[b])

\* WidgetCore::walk_mut (traits.rs 137-141): depth-first, self after all the
\* children.  The result is the order in which f is called.
RECURSIVE walk_mut(_, _)
RECURSIVE WalkChildren(_, _)
walk_mut(par, w) == WalkChildren(par, Children(par, w)) \o <<w>>
WalkChildren(par, cs) ==
    IF cs = <<>> THEN <<>> ELSE walk_mut(par, Head(cs)) \o WalkChildren(par, Tail(cs))

\* WidgetId::FIRST, and the identifier WidgetId::next gives after id
WidgetId_FIRST == 1
NextWidgetId(id) == id + 1

\* ConfigureManager::next_id (manager.rs 531-536), called once per widget in
\* the order of the walk: the widget takes the counter and the counter advances.
RECURSIVE AssignIds(_, _, _)
AssignIds(order, id, ids) ==
    IF order = <<>> THEN ids
    ELSE AssignIds(Tail(order), NextWidgetId(id), [ids EXCEPT ![Head(order)] = id])

\* The configuration pass over the tree par
configure(par) ==
    AssignIds(walk_mut(par, TreeRoot), WidgetId_FIRST, [w \in DOMAIN par |-> WidgetId_FIRST])

\* traits.rs 98 / 119: a child whose identifier is below id is passed over
SkipsChild(id, child_id) == id > child_id

\* WidgetCore::find (traits.rs 89-106); the result is Option<node>
RECURSIVE find(_, _, _, _)
RECURSIVE FindIn(_, _, _, _)
find(par, ids, w, id) ==
    IF id = ids[w] THEN Some(w)
    ELSE IF id > ids[w] THEN None
    ELSE FindIn(par, ids, Children(par, w), id)
FindIn(par, ids, cs, id) ==
    IF cs = <<>> THEN None
    ELSE IF SkipsChild(id, ids[Head(cs)]) THEN FindIn(par, ids, Tail(cs), id)
    ELSE find(par, ids, Head(cs), id)

\* WidgetCore::find_mut (traits.rs 112-129)
RECURSIVE find_mut(_, _, _, _)
RECURSIVE FindMutIn(_, _, _, _)
find_mut(par, ids, w, id) ==
    IF id = ids[w] THEN Some(w)
    ELSE IF id > ids[w] THEN None
    ELSE FindMutIn(par, ids, Children(par, w), id)
\* The search goes into the first child whatever its identifier
FindMutIn_first(par, ids, cs, id) ==
    IF cs = <<>> THEN None ELSE find_mut(par, ids, Head(cs), id)
FindMutIn(par, ids, cs, id) ==
    IF cs = <<>> THEN None
    ELSE IF SkipsChild(id, ids[Head(cs)]) THEN FindMutIn(par, ids, Tail(cs), id)
    ELSE find_mut(par, ids, Head(cs), id)

\* ComboBox::send (combobox.rs 182) on an enabled widget w whose one child is
\* its popup: an identifier up to the popup's goes to the popup, any other is
\* handled by w itself.
SendToPopup(ids, popup, id) == id <= ids[popup]

\* ManagerState::configure: the identifiers are assigned anew
Configure ==
    /\ core_id' = configure(tree_parent)
    /\ found' = None
    /\ Returns("configure", TRUE)
    /\ UNCHANGED <<tree_parent, panVars, keyVars, hoverVars>>

Configured == op.name \in {"configure", "find"}

\* A lookup of id from node w of the configured tree, with both find and
\* find_mut
Find(w, id) ==
    /\ Configured
    /\ found' = Some([id |-> id, from |-> w, res |-> find(tree_parent, core_id, w, id),
                      res_mut |-> find_mut(tree_parent, core_id, w, id)])
    /\ Returns("find", TRUE)
    /\ UNCHANGED <<tree_parent, core_id, panVars, keyVars, hoverVars>>

\* ------------------------------------------------------- focus and keys
\* What one call on the manager works on: the focus and key fields, and what
\* the call has done so far outside them.
KeyState ==
    [char_focus |-> char_focus, sel_focus |-> sel_focus, nav_focus |-> nav_focus,
     key_depress |-> key_depress, popups |-> popups, pending |-> pending,
     last_char |-> last_char, popup_id |-> popup_id, sent |-> <<>>, redraw |-> <<>>,
     closed |-> <<>>, order |-> <<>>]

\* The window of SpecKey: a root with two children.  After configuration the
\* children are widgets 1 and 2 and the root is widget 3.
KeyTree == <<0, 1, 1>>
RootId == core_id[TreeRoot]
\* Widget 1 is an EditBox in the windows where it takes navigation focus, as
\* an EditBox always does (editbox.rs 122); the other widgets answer an event
\* as they like.
EditBoxes == {1} \cap key_nav
\* The widgets that take navigation focus, in traversal order: the order of
\* the depth-first walk, which is the order of their identifiers
KeyNav == SortedSeq(key_nav)

Responses == {"None", "Unhandled"}

Event(kind, cmd, shift) == [kind |-> kind, cmd |-> cmd, shift |-> shift]
Activate == Event("Activate", "None", FALSE)
NavFocus == Event("NavFocus", "None", FALSE)
Command(cmd, shift) == Event("Command", cmd, shift)

PendingOf(kind, id) == [id |-> id, kind |-> kind]

\* Manager::redraw
redraw(st, id) == [st EXCEPT !.redraw = Append(@, id)]

\* Manager::set_nav_focus
set_nav_focus(st, id) ==
    IF st.nav_focus # Some(id) THEN [redraw(st, id) EXCEPT !.nav_focus = Some(id)] ELSE st

\* Manager::clear_nav_focus
clear_nav_focus(st) ==
    IF st.nav_focus # None
    THEN [redraw(st, st.nav_focus[1]) EXCEPT !.nav_focus = None]
    ELSE st

\* Manager::close_window: the popup of window win leaves the list and the
\* shell closes the window
close_window(st, win) ==
    [st EXCEPT !.popups = SelectSeq(@, LAMBDA e : e.win # win),
               !.closed = Append(@, win),
               !.order = Append(@, <<"close", win>>)]

\* The notification is delivered to the widget at once
PushPending_sync(st, kind, id) ==
    [st EXCEPT !.sent = Append(@, [to |-> id, ev |-> Event(kind, "None", FALSE)])]
\* manager.rs 469 / 477: self.state.pending.push(..)
PushPending(st, kind, id) == [st EXCEPT !.pending = Append(@, PendingOf(kind, id))]

\* Character focus stays on whatever the call names
CharFocusAfter_set(wid) == TRUE
\* manager.rs 457 / 462: self.state.char_focus = wid.is_some()
CharFocusAfter(wid) == wid # None

\* Manager::set_char_focus with both pushes in the other order
set_char_focus_swapped(st, wid) ==
    LET s1 == IF wid # None
              THEN [set_nav_focus(st, wid[1]) EXCEPT !.last_char = wid]
              ELSE st
    IN IF s1.sel_focus = wid
       THEN [s1 EXCEPT !.char_focus = CharFocusAfter(wid)]
       ELSE LET had_char_focus == s1.char_focus
                s2 == [s1 EXCEPT !.char_focus = CharFocusAfter(wid)]
            IN IF s2.sel_focus # None
               THEN LET id == s2.sel_focus[1]
                        s3 == IF wid = None THEN s2
                              ELSE PushPending(s2, "LostSelFocus", id)
                        s4 == IF had_char_focus
                              THEN PushPending(s3, "LostCharFocus", id)
                              ELSE s3
                    IN IF wid = None THEN s4 ELSE [s4 EXCEPT !.sel_focus = wid]
               ELSE [s2 EXCEPT !.sel_focus = wid]

\* Manager::set_char_focus with the early return for the widget that has
\* selection focus taken before navigation focus is set
set_char_focus_early(st, wid) ==
    IF st.sel_focus = wid
    THEN [st EXCEPT !.char_focus = CharFocusAfter(wid),
                    !.last_char = IF wid # None THEN wid ELSE @]
    ELSE LET s1 == IF wid # None
                   THEN [set_nav_focus(st, wid[1]) EXCEPT !.last_char = wid]
                   ELSE st
             had_char_focus == s1.char_focus
             s2 == [s1 EXCEPT !.char_focus = CharFocusAfter(wid)]
         IN IF s2.sel_focus # None
            THEN LET id == s2.sel_focus[1]
                     s3 == IF had_char_focus
                           THEN PushPending(s2, "LostCharFocus", id)
                           ELSE s2
                 IN IF wid = None THEN s3
                    ELSE [PushPending(s3, "LostSelFocus", id) EXCEPT !.sel_focus = wid]
            ELSE [s2 EXCEPT !.sel_focus = wid]

\* set_char_focus that tells the widget it has lost selection focus whenever
\* it tells it anything
set_char_focus_both(st, wid) ==
    LET s1 == IF wid # None
              THEN [set_nav_focus(st, wid[1]) EXCEPT !.last_char = wid]
              ELSE st
    IN IF s1.sel_focus = wid
       THEN [s1 EXCEPT !.char_focus = CharFocusAfter(wid)]
       ELSE LET had_char_focus == s1.char_focus
                s2 == [s1 EXCEPT !.char_focus = CharFocusAfter(wid)]
            IN IF s2.sel_focus # None
               THEN LET id == s2.sel_focus[1]
                        s3 == IF had_char_focus
                              THEN PushPending(s2, "LostCharFocus", id)
                              ELSE s2
                    IN [PushPending(s3, "LostSelFocus", id) EXCEPT
                           !.sel_focus = IF wid = None THEN @ ELSE wid]
               ELSE [s2 EXCEPT !.sel_focus = wid]

\* Manager::set_char_focus (manager.rs 443-483).  last_char records the
\* widget of the last call with Some(_).
set_char_focus(st, wid) ==
    LET s1 == IF wid # None
              THEN [set_nav_focus(st, wid[1]) EXCEPT !.last_char = wid]
              ELSE st
    IN IF s1.sel_focus = wid
       THEN [s1 EXCEPT !.char_focus = CharFocusAfter(wid)]
       ELSE LET had_char_focus == s1.char_focus
                s2 == [s1 EXCEPT !.char_focus = CharFocusAfter(wid)]
            IN IF s2.sel_focus # None
               THEN LET id == s2.sel_focus[1]
                        s3 == IF had_char_focus
                              THEN PushPending(s2, "LostCharFocus", id)
                              ELSE s2
                    IN IF wid = None THEN s3
                       ELSE [PushPending(s3, "LostSelFocus", id) EXCEPT !.sel_focus = wid]
               ELSE [s2 EXCEPT !.sel_focus = wid]

\* Characters: two that are inserted; the control characters received_char
\* names, by their Unicode names (U+0003 copy, U+0008 backspace, U+0009 tab,
\* U+000D return, U+0016 paste, U+001A undo and redo, U+007F delete); and, in
\* clipboard contents only, a line feed and a character whose UTF-8 encoding
\* has a second byte in 0x80..0x9f (such as U+00C0)
Printable == {"a", "b"}
SplitChars == {"U+00C0"}
EditChars == Printable \cup {"ETX", "BS", "HT", "CR", "SYN", "SUB", "DEL"}

\* editbox.rs 350-357: the number of characters of the content before its
\* first byte below 0x20 or in 0x7f..0x9f; the byte is within a character
\* when it is the second byte of one
RECURSIVE CutAt(_)
CutAt(content) ==
    IF content = <<>> \/ Head(content) \notin Printable THEN 0
    ELSE 1 + CutAt(Tail(content))
CutSplits(content) ==
    CutAt(content) < Len(content) /\ content[CutAt(content) + 1] \in SplitChars

\* The text before an edit is stored at every edit
SavesState_always(last, kind) == TRUE

\* editbox.rs 333, 346, 371, 379: the text before an edit is stored when the
\* edit before it was of another kind
SavesState(last, kind) == last # kind

\* The fields after an edit of the kind given that leaves the text new_text
Edited(box, kind, new_text) ==
    [box EXCEPT !.old_state = IF SavesState(box.last_edit, kind) THEN Some(box.text) ELSE @,
                !.last_edit = kind,
                !.text = new_text]

\* EditBox::received_char (editbox.rs 318-390) on the fields box with the
\* clipboard clip: the fields, the clipboard, the EditAction returned and
\* whether the call panicked
received_char(box, clip, c) ==
    LET same == [panic |-> FALSE, ret |-> "Edit", box |-> box, clip |-> clip]
    IN IF ~box.editable THEN [same EXCEPT !.ret = "None"]
       ELSE IF c \in Printable
       THEN [same EXCEPT !.box = Edited(box, "Insert", Append(box.text, c))]
       ELSE IF c = "ETX" THEN [same EXCEPT !.clip = Some(box.text)]
       ELSE IF c = "BS"
       THEN [same EXCEPT !.box = Edited(box, "Backspace",
                                        SubSeq(box.text, 1, Len(box.text) - 1))]
       ELSE IF c = "CR" THEN [same EXCEPT !.ret = "Activate"]
       ELSE IF c = "SYN"
       THEN IF clip = None THEN [same EXCEPT !.box = Edited(box, "Paste", box.text)]
            ELSE IF CutSplits(clip[1])
            THEN [same EXCEPT !.box = Edited(box, "Paste", box.text), !.panic = TRUE]
            ELSE [same EXCEPT !.box = Edited(box, "Paste",
                                             box.text \o SubSeq(clip[1], 1, CutAt(clip[1])))]
       ELSE IF c = "SUB"
       THEN IF box.old_state # None
            THEN [same EXCEPT !.box = [box EXCEPT !.old_state = Some(box.text),
                                                  !.last_edit = "None",
                                                  !.text = box.old_state[1]]]
            ELSE same
       ELSE IF c = "DEL" THEN [same EXCEPT !.box = Edited(box, "Clear", <<>>)]
       ELSE same

\* The fields of the EditBox of the window
EditBoxFields ==
    [editable |-> editable, text |-> text, old_state |-> old_state, last_edit |-> last_edit]

\* Event::ReceivedCharacter(c)
ReceivedCharacter(c) == Event("ReceivedCharacter", c, FALSE)

\* EditBox::handle (editbox.rs 422-441) on the manager: Activate asks for
\* character focus and is handled; a character goes to received_char, which
\* asks for a redraw when it returns Edit (editbox.rs 388), and is handled; a
\* command is not handled.  What a character does to the fields of the
\* EditBox and to the clipboard is in ReceivedChar.
EditBoxHandle(st, id, ev) ==
    IF ev.kind = "Activate" THEN <<set_char_focus(st, Some(id)), "None">>
    ELSE IF ev.kind = "ReceivedCharacter"
    THEN LET r == received_char(EditBoxFields, clipboard, ev.cmd)
         IN <<IF r.ret = "Edit" /\ ~r.panic THEN redraw(st, id) ELSE st, "None">>
    ELSE IF ev.kind = "LostCharFocus" THEN <<st, "None">>
    ELSE <<st, "Unhandled">>

\* Manager::add_popup: the popup of widget parent is put on top of the list,
\* in a new window.  The result is <<state, WindowId>>.
add_popup(st, parent) ==
    LET used == {st.popups[i].win : i \in 1..Len(st.popups)}
        win == Min((1..(Len(st.popups) + 1)) \ used)
    IN <<[st EXCEPT !.popups = Append(@, [win |-> win, parent |-> parent])], win>>

\* ComboBox::handle (combobox.rs 155-173): Activate closes the popup the
\* ComboBox has recorded in popup_id, or opens one and records it; no other
\* event is handled.  A window has at most one ComboBox.
ComboBoxHandle(st, id, ev) ==
    IF ev.kind = "Activate"
    THEN IF st.popup_id # None
         THEN <<[close_window(st, st.popup_id[1]) EXCEPT !.popup_id = None], "None">>
         ELSE LET r == add_popup(st, id)
              IN <<[r[1] EXCEPT !.popup_id = Some(r[2])], "None">>
    ELSE <<st, "Unhandled">>

\* The node of the tree that has the identifier id
NodeOf(id) == CHOOSE k \in DOMAIN core_id : core_id[k] = id

\* ComboBox::send (combobox.rs 182): the widget id is in the popup of the
\* ComboBox c, which is the child of c
InComboPopup(c, id) ==
    /\ NodeOf(c) \in AncestorsOf(tree_parent, NodeOf(id))
    /\ SendToPopup(core_id, Children(tree_parent, NodeOf(c))[1], id)

\* ComboBox::send (combobox.rs 183-195): an entry of the popup of c has
\* answered with a message: c closes the popup it has recorded and is redrawn
ComboChoice(st, c) ==
    redraw(IF st.popup_id # None
           THEN [close_window(st, st.popup_id[1]) EXCEPT !.popup_id = None]
           ELSE st, c)

\* ComboBox::send (combobox.rs 178-180): the widget id is a disabled ComboBox
\* or in the popup of one; the ComboBox returns the event unhandled, and the
\* event reaches neither its handler nor its popup
StoppedByDisabled(id) ==
    \E c \in combo \cap disabled : id = c \/ InComboPopup(c, id)

\* SendEvent::send from the root: the event reaches the widget id if the tree
\* has it and no disabled ComboBox is in its way, and the widget's handler
\* answers; resp is the answer of a widget that is neither an EditBox nor a
\* ComboBox.  The result is <<state, response>>.
send(st, id, ev, resp) ==
    IF find_mut(tree_parent, core_id, TreeRoot, id) = None THEN <<st, "Unhandled">>
    ELSE IF StoppedByDisabled(id) THEN <<st, "Unhandled">>
    ELSE LET s1 == [st EXCEPT !.sent = Append(@, [to |-> id, ev |-> ev]),
                              !.order = Append(@, <<"send", id>>)]
         IN IF id \in EditBoxes THEN EditBoxHandle(s1, id, ev)
            ELSE IF id \in combo THEN ComboBoxHandle(s1, id, ev)
            ELSE IF resp = "Msg" /\ \E c \in combo : InComboPopup(c, id)
            THEN <<ComboChoice(s1, CHOOSE c \in combo : InComboPopup(c, id)), resp>>
            ELSE <<s1, resp>>

\* Config::shortcuts: the command a key is bound to
CommandKeys == {"Escape", "Return", "Tab", "Left"}
opt_command(mods, vkey) ==
    IF vkey \in CommandKeys THEN Some(vkey)
    ELSE IF vkey = "NumpadEnter" THEN Some("Return")
    ELSE None

IndexOf(seq, x) == Min({i \in 1..Len(seq) : seq[i] = x})

\* next_nav_focus that stops at the end of the window: after the last widget
\* (before the first, with backward) nothing is found
next_nav_focus_stop(st, backward) ==
    LET n == Len(KeyNav)
        cur == IF st.nav_focus # None /\ \E i \in 1..n : KeyNav[i] = st.nav_focus[1]
               THEN IndexOf(KeyNav, st.nav_focus[1]) ELSE 0
        nxt == IF cur = 0 THEN (IF backward THEN n ELSE 1)
               ELSE IF backward THEN cur - 1 ELSE cur + 1
    IN IF nxt < 1 \/ nxt > n THEN <<st, FALSE>>
       ELSE <<set_nav_focus(st, KeyNav[nxt]), TRUE>>

\* Manager::next_nav_focus: navigation focus moves to the next widget of
\* KeyNav (the previous one with backward), cyclically; the first (last) when
\* it is unset.  The result is <<state, found>>.
next_nav_focus(st, backward) ==
    IF KeyNav = <<>> THEN <<st, FALSE>>
    ELSE LET n == Len(KeyNav)
             cur == IF st.nav_focus # None /\ \E i \in 1..n : KeyNav[i] = st.nav_focus[1]
                    THEN IndexOf(KeyNav, st.nav_focus[1]) ELSE 0
             nxt == IF cur = 0 THEN (IF backward THEN n ELSE 1)
                    ELSE IF backward THEN (IF cur = 1 THEN n ELSE cur - 1)
                    ELSE (IF cur = n THEN 1 ELSE cur + 1)
         IN <<set_nav_focus(st, KeyNav[nxt]), TRUE>>

ActivateKeys == {"Space", "Return", "NumpadEnter"}

\* The parent of the top popup comes before the widget with navigation focus
NavTarget_popup_first(st, vkey, shift) ==
    LET cmd == opt_command(modifiers, vkey)
    IN IF modifiers.alt THEN None
       ELSE IF cmd # None /\ st.popups # <<>>
       THEN Some(<<st.popups[Len(st.popups)].parent, Command(cmd[1], shift)>>)
       ELSE IF st.nav_focus # None /\ vkey \in ActivateKeys
       THEN Some(<<st.nav_focus[1], Activate>>)
       ELSE IF st.nav_focus # None /\ cmd # None
       THEN Some(<<st.nav_focus[1], Command(cmd[1], shift)>>)
       ELSE IF cmd # None /\ nav_fallback # None
       THEN Some(<<nav_fallback[1], Command(cmd[1], shift)>>)
       ELSE None

\* The navigation fallback comes before the parent of the top popup
NavTarget_fallback_first(st, vkey, shift) ==
    LET cmd == opt_command(modifiers, vkey)
    IN IF modifiers.alt THEN None
       ELSE IF st.nav_focus # None /\ vkey \in ActivateKeys
       THEN Some(<<st.nav_focus[1], Activate>>)
       ELSE IF st.nav_focus # None /\ cmd # None
       THEN Some(<<st.nav_focus[1], Command(cmd[1], shift)>>)
       ELSE IF cmd # None /\ nav_fallback # None
       THEN Some(<<nav_fallback[1], Command(cmd[1], shift)>>)
       ELSE IF cmd # None /\ st.popups # <<>>
       THEN Some(<<st.popups[Len(st.popups)].parent, Command(cmd[1], shift)>>)
       ELSE None

\* manager.rs 318-341: the target while Alt is not held, as Option<(id, event)>
NavTarget(st, vkey, shift) ==
    LET cmd == opt_command(modifiers, vkey)
        first == IF st.nav_focus # None
                 THEN IF vkey \in ActivateKeys THEN Some(<<st.nav_focus[1], Activate>>)
                      ELSE IF cmd # None
                      THEN Some(<<st.nav_focus[1], Command(cmd[1], shift)>>)
                      ELSE None
                 ELSE None
    IN IF modifiers.alt THEN None
       ELSE IF first # None THEN first
       ELSE IF cmd # None
       THEN IF st.popups # <<>>
            THEN Some(<<st.popups[Len(st.popups)].parent, Command(cmd[1], shift)>>)
            ELSE IF nav_fallback # None
            THEN Some(<<nav_fallback[1], Command(cmd[1], shift)>>)
            ELSE None
       ELSE None

\* manager.rs 346-349: the owners of the accelerator layers that are searched,
\* the parent of the top popup first and the root last
LayerOwners(st) ==
    [i \in 1..(Len(st.popups) + 1) |->
        IF i <= Len(st.popups) THEN st.popups[Len(st.popups) + 1 - i].parent ELSE RootId]

\* Only the alt-bypass layers match, with or without Alt
AccelMatches_bypass(st, vkey) ==
    {i \in 1..(Len(st.popups) + 1) :
        LET id == LayerOwners(st)[i] IN
        /\ id \in DOMAIN accel_layers
        /\ accel_layers[id].bypass
        /\ vkey \in DOMAIN accel_layers[id].keys}

\* manager.rs 351-360: the positions (1-based) of the layers that have vkey
AccelMatches(st, vkey) ==
    {i \in 1..(Len(st.popups) + 1) :
        LET id == LayerOwners(st)[i] IN
        /\ id \in DOMAIN accel_layers
        /\ modifiers.alt \/ accel_layers[id].bypass
        /\ vkey \in DOMAIN accel_layers[id].keys}

\* No popup is closed
CloseAbove_keep(st, i, n, last) == st

\* manager.rs 364-370: close_window on popups[last - i] for i in 0..n, each
\* index taken in the list as it then is
RECURSIVE CloseAbove(_, _, _, _)
CloseAbove(st, i, n, last) ==
    IF i >= n THEN st
    ELSE CloseAbove(close_window(st, st.popups[last - i + 1].win), i + 1, n, last)

\* The key is not recorded
RecordDepress_none(st, scancode, id) == st

\* The key is recorded as held on id whether or not id is held
RecordDepress_again(st, scancode, id) ==
    redraw([st EXCEPT !.key_depress =
               [s \in DOMAIN st.key_depress \cup {scancode} |->
                   IF s = scancode THEN id ELSE st.key_depress[s]]], id)

\* manager.rs 388-398: the key is recorded as held on id, unless id is held
RecordDepress(st, scancode, id) ==
    IF \E s \in DOMAIN st.key_depress : st.key_depress[s] = id THEN st
    ELSE redraw([st EXCEPT !.key_depress =
                    [s \in DOMAIN st.key_depress \cup {scancode} |->
                        IF s = scancode THEN id ELSE st.key_depress[s]]], id)

\* The delivery with the rule for Escape applied to every unhandled key
Deliver_any_key(st, target, vkey, scancode, resp) ==
    LET id == target[1]
        event == target[2]
        r == send(st, id, event, resp)
        s1 == r[1]
        s2 == IF r[2] = "Unhandled"
              THEN IF s1.popups # <<>>
                   THEN close_window(s1, s1.popups[Len(s1.popups)].win)
                   ELSE clear_nav_focus(s1)
              ELSE s1
    IN IF event = Activate THEN RecordDepress(s2, scancode, id) ELSE s2

\* manager.rs 373-399: the resolved event is delivered
Deliver(st, target, vkey, scancode, resp) ==
    LET id == target[1]
        event == target[2]
        r == send(st, id, event, resp)
        s1 == r[1]
        s2 == IF r[2] = "Unhandled" /\ vkey = "Escape"
              THEN IF s1.popups # <<>>
                   THEN close_window(s1, s1.popups[Len(s1.popups)].win)
                   ELSE clear_nav_focus(s1)
              ELSE s1
    IN IF event = Activate THEN RecordDepress(s2, scancode, id) ELSE s2

\* Escape ends character focus whatever the widget answers
ClearsCharFocus_any(resp, cmd) == cmd = "Escape"
\* manager.rs 296-301: the command was not handled and is Escape
ClearsCharFocus(resp, cmd) == resp = "Unhandled" /\ cmd = "Escape"

\* The Tab key moves navigation focus and tells no widget
TabKey_silent(st, shift, resp) ==
    LET r == next_nav_focus(st, shift)
    IN IF ~r[2] THEN clear_nav_focus(r[1]) ELSE r[1]

\* manager.rs 309-314: the Tab key
TabKey(st, shift, resp) ==
    LET r == next_nav_focus(st, shift)
        s1 == IF ~r[2] THEN clear_nav_focus(r[1]) ELSE r[1]
    IN IF s1.nav_focus # None
       THEN send(s1, s1.nav_focus[1], NavFocus, resp)[1]
       ELSE s1

\* Manager::start_key_event (manager.rs 281-400)
start_key_event(st, vkey, scancode, resp) ==
    LET cmd == opt_command(modifiers, vkey)
        shift == modifiers.shift
    IN IF st.char_focus /\ st.sel_focus # None
       THEN IF cmd # None
            THEN LET r == send(st, st.sel_focus[1], Command(cmd[1], shift), resp)
                 IN IF ClearsCharFocus(r[2], cmd[1])
                    THEN set_char_focus(r[1], None)
                    ELSE r[1]
            ELSE st
       ELSE IF vkey = "Tab" THEN TabKey(st, shift, resp)
       ELSE LET nav == NavTarget(st, vkey, shift)
                hits == AccelMatches(st, vkey)
            IN IF nav # None THEN Deliver(st, nav[1], vkey, scancode, resp)
               ELSE IF hits = {} THEN st
               ELSE LET i == Min(hits)
                        owner == LayerOwners(st)[i]
                        s1 == CloseAbove(st, 0, i - 1, Len(st.popups) - 1)
                    IN Deliver(s1, <<accel_layers[owner].keys[vkey], Activate>>,
                               vkey, scancode, resp)

\* Any key-up releases every held key
end_key_event_all(st, scancode) == [st EXCEPT !.key_depress = <<>>]

\* Manager::end_key_event (manager.rs 402-407)
end_key_event(st, scancode) ==
    IF scancode \in DOMAIN st.key_depress
    THEN redraw([st EXCEPT !.key_depress =
                    [s \in DOMAIN st.key_depress \ {scancode} |-> st.key_depress[s]]],
                st.key_depress[scancode])
    ELSE st

\* The fields and the history after a call that ended in st
KeyCommit(st) ==
    /\ char_focus' = st.char_focus
    /\ sel_focus' = st.sel_focus
    /\ nav_focus' = st.nav_focus
    /\ key_depress' = st.key_depress
    /\ popups' = st.popups
    /\ pending' = st.pending
    /\ last_char' = st.last_char
    /\ popup_id' = st.popup_id
    /\ out' = [sent |-> st.sent, redraw |-> st.redraw, closed |-> st.closed,
               order |-> st.order]

\* ------------------------------------------------------- key actions
Keys == {"Tab", "Space", "Return", "Escape", "Left", "S", "A"}
Scancodes == 1..MaxScancode
PopupWindows == 1..MaxPopups

KeyFrame == UNCHANGED <<modifiers, nav_fallback, accel_layers, key_nav, combo, disabled, panVars,
                        treeVars,
                        hoverVars>>

\* A key goes down: the whole of start_key_event, as long as the deferred
\* queue it leaves is within MaxPending
KeyDown(vkey, scancode, resp) ==
    /\ Len(start_key_event(KeyState, vkey, scancode, resp).pending) <= MaxPending
    /\ KeyCommit(start_key_event(KeyState, vkey, scancode, resp))
    /\ Returns("key_down", TRUE)
    /\ KeyFrame

\* A key goes up: the whole of end_key_event
KeyUp(scancode) ==
    /\ KeyCommit(end_key_event(KeyState, scancode))
    /\ Returns("key_up", scancode \in DOMAIN key_depress)
    /\ KeyFrame

\* A call in which a widget asks for character focus (Some(id)) or gives it
\* up (None)
SetCharFocus(w) ==
    /\ Len(set_char_focus(KeyState, w).pending) <= MaxPending
    /\ KeyCommit(set_char_focus(KeyState, w))
    /\ Returns("set_char_focus", TRUE)
    /\ KeyFrame

\* The modifier keys change
SetModifiers(alt_down, shift_down) ==
    /\ modifiers' = [shift |-> shift_down, alt |-> alt_down]
    /\ out' = NoOut
    /\ Returns("set_modifiers", TRUE)
    /\ UNCHANGED <<char_focus, sel_focus, nav_focus, nav_fallback, key_depress, popups,
                   accel_layers, pending, last_char, key_nav, combo, popup_id, disabled, panVars,
                   treeVars,
                   hoverVars>>

\* After a call has returned, the deferred notifications are delivered in
\* queue order
RECURSIVE DeliverPending(_, _)
DeliverPending(st, todo) ==
    IF todo = <<>> THEN st
    ELSE DeliverPending(
            send(st, Head(todo).id, Event(Head(todo).kind, "None", FALSE), "None")[1],
            Tail(todo))

Update ==
    /\ pending # <<>>
    /\ KeyCommit(DeliverPending([KeyState EXCEPT !.pending = <<>>], pending))
    /\ Returns("update", TRUE)
    /\ KeyFrame

\* Manager::add_popup: a popup of widget parent opens in a new window, which
\* gets the first window identifier of wins that is not in use
AddPopupIn(parent, wins) ==
    /\ Len(popups) < Cardinality(wins)
    /\ LET win == Min(wins \ {popups[i].win : i \in 1..Len(popups)})
       IN KeyCommit([KeyState EXCEPT !.popups = Append(@, [win |-> win, parent |-> parent])])
    /\ Returns("add_popup", TRUE)
    /\ KeyFrame

AddPopup(parent) == AddPopupIn(parent, PopupWindows)

\* A widget closes its popup
ClosePopup(win) ==
    /\ \E i \in 1..Len(popups) : popups[i].win = win
    /\ KeyCommit(close_window(KeyState, win))
    /\ Returns("close_window", TRUE)
    /\ KeyFrame

\* ------------------------------------------------------------------ hover
\* Widget 2 is a TextButton, which is highlighted under the mouse
\* (button.rs 48); the other widgets keep the default of the trait.
HoverHighlights == {2}
hover_highlight(id) == id \in HoverHighlights

\* WidgetConfig::cursor_icon: Text for an EditBox (editbox.rs 122), Default
\* otherwise (traits.rs 260)
WidgetCursor(id) == IF id \in EditBoxes THEN "Text" ELSE "Default"

\* find_leaf(id): the widget of the tree that has the identifier, if any
find_leaf(id) == find(tree_parent, core_id, TreeRoot, id)

\* Both widgets are redrawn, highlighted or not
HoverRedraw_always(w_id) == IF w_id # None THEN <<w_id[1]>> ELSE <<>>
\* manager.rs 241-258: the redraw of one end of a hover change, as the list of
\* the widgets redrawn
HoverRedraw(w_id) ==
    IF w_id # None /\ find_leaf(w_id[1]) # None /\ hover_highlight(w_id[1])
    THEN <<w_id[1]>> ELSE <<>>

\* manager.rs 262-270: the icon of the root, replaced on the way down to id by
\* the icon of every widget that names one other than Default
HoverIcon(id) ==
    LET at == {b \in DOMAIN core_id : core_id[b] = id}
        chain == {b \in DOMAIN core_id :
                     b # TreeRoot /\ \E a \in at : b = a \/ b \in AncestorsOf(tree_parent, a)}
        named == {b \in chain : WidgetCursor(core_id[b]) # "Default"}
        deepest == CHOOSE b \in named : \A c \in named : c = b \/ c \in AncestorsOf(tree_parent, b)
    IN IF named = {} THEN WidgetCursor(core_id[TreeRoot]) ELSE WidgetCursor(core_id[deepest])

\* The shell gets every new hover icon, press grab or not
ShowsIcon_always(icon) == icon # hover_icon
\* manager.rs 271-275: the new icon differs from the stored one and is passed
\* to the shell, which happens only while no press grab is active
ShowsIcon(icon) == icon # hover_icon /\ mouse_grab = None

\* Manager::set_hover (manager.rs 238-279)
SetHover(w_id) ==
    /\ ~panicked
    /\ UNCHANGED <<panVars, focusVars, treeVars>>
    /\ IF hover = w_id
       THEN /\ UNCHANGED hoverVars
            /\ out' = NoOut
            /\ Returns("set_hover", FALSE)
       ELSE LET icon == IF w_id # None THEN HoverIcon(w_id[1]) ELSE hover_icon
                shown == ShowsIcon(icon)
            IN /\ hover' = w_id
               /\ hover_icon' = icon
               /\ cursor_icon' = IF shown THEN icon ELSE cursor_icon
               /\ out' = [(IF shown THEN SetCursorIcon(icon) ELSE NoOut)
                             EXCEPT !.redraw = HoverRedraw(hover) \o HoverRedraw(w_id)]
               /\ Returns("set_hover", TRUE)

\* ----------------------------------------------------------- initial states
InitPan ==
    /\ mouse_grab = None
    /\ touch_grab = <<>>
    /\ touch_order = <<>>
    /\ pan_grab = <<>>
    /\ panicked = FALSE

InitOp == op = OpRec("new", TRUE)

\* Window::new and TkWindow::new (kas-wgpu window.rs 79, 215): no timeout, no
\* action; nothing has been triggered or popped
InitShell ==
    /\ timeouts = <<>>
    /\ action = "None"
    /\ now = 0
    /\ fired = <<>>
    /\ read = <<>>
    /\ resume = None
    /\ popped = "None"
    /\ since_pop = {}

\* EditBox::new (editbox.rs 220-233) with an empty text, and an empty
\* clipboard
InitEditBox ==
    /\ editable = TRUE
    /\ text = <<>>
    /\ old_state = None
    /\ last_edit = "None"
    /\ clipboard = None
    /\ received = <<[text |-> <<>>, c |-> "new"]>>

\* ManagerState::new: no focus, no key held, no popup, nothing pending, no
\* hover target; the shell shows the default cursor.  A ComboBox is made
\* without a popup (combobox.rs 100).
InitFields ==
    /\ hover = None
    /\ hover_icon = "Default"
    /\ cursor_icon = "Default"
    /\ modifiers = [shift |-> FALSE, alt |-> FALSE]
    /\ char_focus = FALSE
    /\ sel_focus = None
    /\ nav_focus = None
    /\ key_depress = <<>>
    /\ popups = <<>>
    /\ pending = <<>>
    /\ last_char = None
    /\ popup_id = None
    /\ out = NoOut

\* No widget of the window has registered itself as the navigation fallback
InitKey == InitFields /\ nav_fallback = None

\* The accelerator layers of the window of SpecKey: the root's layer needs
\* Alt, the layer of widget 2 (the parent of a popup) does not.
KeyLayers ==
    (3 :> [bypass |-> FALSE, keys |-> ("S" :> 2) @@ ("A" :> 1) @@ ("Tab" :> 2)])
    @@ (2 :> [bypass |-> TRUE, keys |-> ("A" :> 2)])

\* The configured window of SpecKey and SpecPan
InitWindow ==
    /\ tree_parent = KeyTree
    /\ core_id = configure(KeyTree)
    /\ found = None
    /\ accel_layers = KeyLayers
    /\ key_nav = {1, 2}
    /\ combo = {}
    /\ disabled = {}

\* A tree of any shape, before its configuration
InitTree ==
    /\ tree_parent \in TreeShapes
    /\ core_id = [w \in DOMAIN tree_parent |-> WidgetId_FIRST]
    /\ found = None
    /\ accel_layers = <<>>
    /\ key_nav = {}
    /\ combo = {}
    /\ disabled = {}

\* In SpecPan every press arrives at the origin.
PanCoords == {DefaultCoord}

\* The button of a grab is only ever compared with the button of a release
\* (end_mouse_grab), so grabs are taken with one button; rejected requests and
\* releases come with either.
PressButtons == {"Left"}

\* A rejected request leaves the state as it is whatever widget, mode and
\* coordinate it names, so one request stands for all of them.
NextPan ==
    \/ /\ mouse_grab = None
       /\ \E id \in PanWidgets, b \in PressButtons, m \in GrabModes, c \in PanCoords :
             RequestGrabMouse(id, b, m, c)
    \/ /\ mouse_grab # None
       /\ \E b \in Buttons : RequestGrabMouse(1, b, "PanFull", DefaultCoord)
    \/ \E id \in PanWidgets, t \in TouchIds \ DOMAIN touch_grab, m \in GrabModes,
          c \in PanCoords : RequestGrabTouch(id, t, m, c)
    \/ \E t \in DOMAIN touch_grab : RequestGrabTouch(1, t, "PanFull", DefaultCoord)
    \/ \E b \in Buttons : EndMouseGrab(b)
    \/ \E t \in TouchIds : TouchEnd(t)

\* The manager of a configured window, as constructed
Init == InitPan /\ InitKey /\ InitWindow /\ InitOp /\ InitShell /\ InitEditBox

\* Presses, one touch and two keys in the window of SpecKey: the grabs, the
\* gestures and the held keys come and go, and every ending is also tried
\* when there is nothing to end
EndedTouches == {1, 2}
NextRemove ==
    \/ \E id \in PanWidgets, m \in GrabModes : RequestGrabMouse(id, "Left", m, DefaultCoord)
    \/ \E id \in PanWidgets, m \in GrabModes : RequestGrabTouch(id, 1, m, DefaultCoord)
    \/ \E b \in Buttons : EndMouseGrab(b)
    \/ \E t \in EndedTouches : TouchEnd(t)
    \/ \E k \in {"Tab", "Space"}, sc \in Scancodes, r \in Responses :
          ~panicked /\ KeyDown(k, sc, r)
    \/ \E sc \in Scancodes : ~panicked /\ KeyUp(sc)

SpecRemove == Init /\ [][NextRemove]_vars

\* The hover target follows the mouse over the window of SpecKey while presses
\* of the two mouse buttons come and go
HoverTargets == {None} \cup {Some(id) : id \in 1..3}
NextHover ==
    \/ \E w_id \in HoverTargets : SetHover(w_id)
    \/ \E id \in PanWidgets, b \in Buttons, m \in GrabModes, c \in PanCoords :
          RequestGrabMouse(id, b, m, c)
    \/ \E b \in Buttons : EndMouseGrab(b)

SpecHover == Init /\ [][NextHover]_vars

SpecPan == Init /\ [][NextPan]_vars

NextTree ==
    \/ Configure
    \/ \E w \in DOMAIN tree_parent, id \in 0..(MaxNodes + 1) : Find(w, id)

\* A new manager and a tree that is not configured yet
InitUnconfigured == InitPan /\ InitKey /\ InitTree /\ InitOp /\ InitShell /\ InitEditBox

SpecTree == InitUnconfigured /\ [][NextTree]_vars

NextKey ==
    \/ \E k \in Keys, sc \in Scancodes, r \in Responses : KeyDown(k, sc, r)
    \/ \E sc \in Scancodes : KeyUp(sc)
    \/ \E w \in {None} \cup {Some(KeyNav[i]) : i \in 1..Len(KeyNav)} : SetCharFocus(w)
    \/ \E a \in BOOLEAN, sh \in BOOLEAN : SetModifiers(a, sh)
    \/ Update
    \/ \E parent \in {1, 2} : AddPopup(parent)
    \/ \E win \in PopupWindows : ClosePopup(win)

SpecKey == Init /\ [][NextKey]_vars

\* The window of SpecRoute: a root with three children.  After configuration
\* the children are widgets 1 (the EditBox, or the widget of CharWidgets), 2
\* and 3 and the root is widget 4.
\* Widgets 2 and 3 open popups.
RouteTree == <<0, 1, 1, 1>>
PopupParents == {2, 3}
\* The layer of widget 3 needs Alt, the root's layer and the layer of widget 2
\* do not. The root's layer also has Left and the layer of widget 3 has
\* Escape, keys that are bound to commands.
RouteLayers ==
    (4 :> [bypass |-> TRUE,
           keys |-> ("S" :> 2) @@ ("A" :> 1) @@ ("Tab" :> 2) @@ ("Left" :> 3)])
    @@ (3 :> [bypass |-> FALSE, keys |-> ("S" :> 3) @@ ("Escape" :> 3)])
    @@ (2 :> [bypass |-> TRUE, keys |-> ("A" :> 2)])
\* The windows differ in the widgets that take navigation focus and in
\* whether widget 3 has registered itself as the navigation fallback: each
\* is a pair <<widgets with key_nav, nav_fallback>>.
RouteWindows == {<<{}, Some(3)>>, <<{1, 3}, None>>, <<{1, 2, 3}, Some(3)>>}
\* In the window without focusable widgets widget 1 is no EditBox: it is a
\* widget of the application that asks for character focus itself.
CharWidgets == {1} \ EditBoxes

InitRoute ==
    /\ InitPan
    /\ InitFields
    /\ InitOp
    /\ InitShell
    /\ InitEditBox
    /\ tree_parent = RouteTree
    /\ core_id = configure(RouteTree)
    /\ found = None
    /\ accel_layers = RouteLayers
    /\ \E w \in RouteWindows : key_nav = w[1] /\ nav_fallback = w[2]
    /\ combo = {}
    /\ disabled = {}

RouteKeys == Keys \cup {"NumpadEnter"}
StackWindows == 1..MaxStack
\* One key is held at a time.
RouteScancode == 1

\* The widgets close their popups from the top of the stack.
NextLookup ==
    \/ \E k \in RouteKeys, r \in Responses : KeyDown(k, RouteScancode, r)
    \/ KeyUp(RouteScancode)
    \/ \E a \in BOOLEAN, sh \in BOOLEAN : SetModifiers(a, sh)
    \/ Update
    \/ \E parent \in PopupParents : AddPopupIn(parent, StackWindows)
    \/ \E win \in StackWindows : popups # <<>> /\ popups[Len(popups)].win = win /\ ClosePopup(win)

\* The same, and the widget of CharWidgets takes character focus
NextRoute ==
    \/ NextLookup
    \/ \E w \in CharWidgets : SetCharFocus(Some(w))

SpecRoute == InitRoute /\ [][NextRoute]_vars

\* The window of SpecRoute in which widgets 1 and 3 take navigation focus and
\* no navigation fallback is registered
InitLookup ==
    /\ InitRoute
    /\ key_nav = {1, 3}
    /\ nav_fallback = None

SpecLookup == InitLookup /\ [][NextLookup]_vars

\* The key-downs and focus requests of SpecKey, with one key
NextChar ==
    \/ \E k \in Keys, r \in Responses : KeyDown(k, RouteScancode, r)
    \/ \E w \in {None} \cup {Some(KeyNav[i]) : i \in 1..Len(KeyNav)} : SetCharFocus(w)
    \/ \E a \in BOOLEAN, sh \in BOOLEAN : SetModifiers(a, sh)
    \/ Update
    \/ \E parent \in {1, 2} : AddPopup(parent)
    \/ \E win \in PopupWindows : ClosePopup(win)

SpecChar == Init /\ [][NextChar]_vars

\* The window of SpecKey after a widget has left the tree without a new
\* configuration: its identifier is still the navigation fallback and the
\* target of an accelerator key of the root's layer, and it may open a popup
StaleId == 4
InitStale ==
    /\ InitPan
    /\ InitFields
    /\ InitOp
    /\ InitShell
    /\ InitEditBox
    /\ tree_parent = KeyTree
    /\ core_id = configure(KeyTree)
    /\ found = None
    /\ accel_layers = (3 :> [bypass |-> TRUE, keys |-> ("S" :> StaleId) @@ ("A" :> 2)])
    /\ key_nav = {1, 2}
    /\ combo = {}
    /\ disabled = {}
    /\ nav_fallback = Some(StaleId)

NextStale ==
    \/ \E k \in {"S", "A", "Escape", "Tab", "Left"}, r \in Responses :
          KeyDown(k, RouteScancode, r)
    \/ KeyUp(RouteScancode)
    \/ \E a \in BOOLEAN, sh \in BOOLEAN : SetModifiers(a, sh)
    \/ \E parent \in {2, StaleId} : AddPopup(parent)
    \/ \E win \in PopupWindows : ClosePopup(win)
    \/ \E w_id \in {None, Some(2), Some(StaleId)} : SetHover(w_id)

SpecStale == InitStale /\ [][NextStale]_vars

\* ------------------------------------------------------------------ timers
\* toolkit.rs 22-37: TkAction, in the order of its variants (derive(Ord))
TkActions == <<"None", "Redraw", "Reconfigure", "Close", "CloseAll">>
TkActionSet == {TkActions[i] : i \in DOMAIN TkActions}
Rank(a) == CHOOSE i \in DOMAIN TkActions : TkActions[i] = a

\* The action sent replaces the stored one
send_action_last(cur, a) == a

\* kas-wgpu window.rs 283-285, TkWindow::send_action: self.action.max(action)
send_action(cur, a) == IF Rank(a) >= Rank(cur) THEN a ELSE cur

\* What the callbacks of one call do with the TkWindow they are given
\* (window.rs 94, 97, 138): they send no action (None) or any of the actions
\* of TkAction.  send_action keeps the greatest action, so the greatest of
\* what the callbacks of a call sent stands for all of it.
CallbackActions == TkActionSet

\* The intervals of the periodic timeouts
Durations == {1, 2}

\* kas-wgpu window.rs 141-143: the interval is added while the instant is not
\* after the clock
RECURSIVE Reschedule(_, _, _)
Reschedule(at, dur, clock) ==
    IF at <= clock THEN Reschedule(at + dur, dur, clock) ELSE at

\* The wake instant is the latest of the timeouts
RECURSIVE next_resume_latest(_)
next_resume_latest(ts) ==
    IF ts = <<>> THEN None
    ELSE LET rest == next_resume_latest(Tail(ts))
         IN IF rest = None \/ ts[1].at >= rest[1] THEN Some(ts[1].at) ELSE rest

\* kas-wgpu window.rs 157-166, Window::next_resume: the earliest of the
\* timeouts, None when there is none
RECURSIVE next_resume(_)
next_resume(ts) ==
    IF ts = <<>> THEN None
    ELSE LET rest == next_resume(Tail(ts))
         IN IF rest = None \/ ts[1].at <= rest[1] THEN Some(ts[1].at) ELSE rest

\* kas-wgpu window.rs 133-152, the loop of Window::timer_resume from the
\* element i (1-based) on: a timeout whose instant equals the instant of the
\* resume triggers its callback; one with an interval is rescheduled and one
\* without is removed, the scan going on at the element that took its place.
\* Instant::now() is read anew after each callback (line 141): clocks[k] is
\* what the clock reads after the k-th callback of the call.  The result is
\* the list and the callbacks triggered, in order.
RECURSIVE TimerLoop(_, _, _, _, _)
TimerLoop(ts, i, instant, clocks, trig) ==
    IF i > Len(ts) THEN [timeouts |-> ts, fired |-> trig]
    ELSE IF ts[i].at = instant
    THEN IF ts[i].dur # None
         THEN TimerLoop([ts EXCEPT ![i].at = Reschedule(@, ts[i].dur[1],
                                                        clocks[Len(trig) + 1])],
                        i + 1, instant, clocks, Append(trig, ts[i].id))
         ELSE TimerLoop(RemoveAt(ts, i - 1), i, instant, clocks, Append(trig, ts[i].id))
    ELSE TimerLoop(ts, i + 1, instant, clocks, trig)

\* kas-wgpu window.rs 137: the number of timeouts whose instant is the
\* instant of the resume
DueAt(ts, instant) == Cardinality({i \in DOMAIN ts : ts[i].at = instant})

\* The readings of a clock during a call that triggers n callbacks: one after
\* each callback; the clock does not go back
ClockReadings(n) ==
    {c \in [1..n -> 1..MaxInstant] : \A k \in 1..(n - 1) : c[k] <= c[k + 1]}

\* Window::timer_resume(instant), called once the wake instant the window
\* reported has been reached, the clock reading clocks[k] after the k-th
\* callback, the last of them when the call returns, and the callbacks
\* sending the action sent; it returns the popped action, which is the stored
\* one with what the callbacks sent (window.rs 154), and the next wake
\* instant
TimerResume(instant, clocks, sent) ==
    /\ next_resume(timeouts) = Some(instant)
    /\ instant <= MaxInstant
    /\ Len(clocks) = DueAt(timeouts, instant)
    /\ clocks[1] >= now /\ clocks[1] >= instant
    /\ LET done == TimerLoop(timeouts, 1, instant, clocks, <<>>)
       IN /\ timeouts' = done.timeouts
          /\ fired' = done.fired
          /\ resume' = next_resume(done.timeouts)
    /\ read' = clocks
    /\ now' = clocks[Len(clocks)]
    /\ popped' = send_action(action, sent)
    /\ action' = "None"
    /\ since_pop' = {}
    /\ op' = OpRec("timer_resume", TRUE)
    /\ UNCHANGED <<panVars, keyVars, treeVars, hoverVars, editVars>>

\* The timeouts of a window: callback i of the window is entry i, periodic
\* or, as the type of the list allows, without an interval
TimeoutLists ==
    UNION {[1..n -> [at : 1..MaxStart, dur : {None} \cup {Some(d) : d \in Durations}]]
              : n \in 0..MaxTimers}
\* Window::init (window.rs 88-103) has returned: the callbacks have run once
\* and the periodic ones are in the list; what the callbacks sent is stored,
\* init pops nothing
InitTimer ==
    /\ InitPan /\ InitKey /\ InitWindow /\ InitOp /\ InitEditBox
    /\ \E l \in TimeoutLists :
          timeouts = [i \in DOMAIN l |-> [id |-> i, at |-> l[i].at, dur |-> l[i].dur]]
    /\ action \in CallbackActions
    /\ now = 0
    /\ fired = <<>>
    /\ read = <<>>
    /\ resume = next_resume(timeouts)
    /\ popped = "None"
    /\ since_pop = {action} \ {"None"}

NextTimer ==
    \E instant \in {i \in 1..MaxInstant : next_resume(timeouts) = Some(i)} :
        \E clocks \in {c \in ClockReadings(DueAt(timeouts, instant)) : c[1] >= instant} :
            \E sent \in CallbackActions : TimerResume(instant, clocks, sent)

SpecTimer == InitTimer /\ [][NextTimer]_vars

\* ------------------------------------------------------- toolkit actions
\* TkWindow::send_action(a)
SendAction(a) ==
    /\ action' = send_action(action, a)
    /\ since_pop' = since_pop \cup {a}
    /\ op' = OpRec("send_action", TRUE)
    /\ UNCHANGED <<panVars, keyVars, treeVars, hoverVars, timerVars, editVars, popped>>

\* kas-wgpu window.rs 278-280, TkWindow::redraw: a Redraw is sent
RedrawWidget ==
    /\ action' = send_action(action, "Redraw")
    /\ since_pop' = since_pop \cup {"Redraw"}
    /\ op' = OpRec("redraw", TRUE)
    /\ UNCHANGED <<panVars, keyVars, treeVars, hoverVars, timerVars, editVars, popped>>

\* kas-wgpu window.rs 231-236, TkWindow::pop_action: the stored action is
\* returned and None is stored
PopAction ==
    /\ popped' = action
    /\ action' = "None"
    /\ since_pop' = {}
    /\ op' = OpRec("pop_action", TRUE)
    /\ UNCHANGED <<panVars, keyVars, treeVars, hoverVars, timerVars, editVars>>

NextAction ==
    \/ \E a \in TkActionSet : SendAction(a)
    \/ RedrawWidget
    \/ PopAction

SpecAction == Init /\ [][NextAction]_vars

\* ----------------------------------------------------------------- EditBox
\* The EditBox with the identifier id receives the character c: the whole of
\* EditBox::handle on Event::ReceivedCharacter(c)
ReceivedChar(id, c) ==
    /\ ~panicked
    /\ Len(received) <= MaxChars
    /\ LET r == received_char(EditBoxFields, clipboard, c)
       IN /\ editable' = r.box.editable
          /\ text' = r.box.text
          /\ old_state' = r.box.old_state
          /\ last_edit' = r.box.last_edit
          /\ clipboard' = r.clip
          /\ panicked' = r.panic
          /\ received' = Append(received, [text |-> r.box.text, c |-> c])
          /\ out' = EditBoxHandle(NoOut, id, ReceivedCharacter(c))[1]
          /\ op' = OpRec("received_char", r.ret = "Edit")
    /\ UNCHANGED <<mouse_grab, touch_grab, touch_order, pan_grab, focusVars, treeVars,
                   hoverVars, timerVars, actionVars>>

\* HasText::set_cow_string (editbox.rs 398-401), which HasText::set_text
\* calls: the text is replaced, the undo state is left as it is
SetText(id, t) ==
    /\ ~panicked
    /\ Len(received) <= MaxChars
    /\ text' = t
    /\ received' = Append(received, [text |-> t, c |-> "set_text"])
    /\ out' = NoOut
    /\ op' = OpRec("set_text", TRUE)
    /\ UNCHANGED <<editable, old_state, last_edit, clipboard, panVars, focusVars, treeVars,
                   hoverVars, timerVars, actionVars>>

\* Editable::set_editable (editbox.rs 409-411)
SetEditable(id, b) ==
    /\ ~panicked
    /\ Len(received) <= MaxChars
    /\ b # editable
    /\ editable' = b
    /\ received' = Append(received, [text |-> text, c |-> "set_editable"])
    /\ out' = NoOut
    /\ op' = OpRec("set_editable", TRUE)
    /\ UNCHANGED <<text, old_state, last_edit, clipboard, panVars, focusVars, treeVars,
                   hoverVars, timerVars, actionVars>>

\* TkWindow::set_clipboard (toolkit.rs 80), called by a widget other than the
\* EditBox
SetClipboard(content) ==
    /\ ~panicked
    /\ clipboard' = Some(content)
    /\ out' = NoOut
    /\ op' = OpRec("set_clipboard", TRUE)
    /\ UNCHANGED <<editable, text, old_state, last_edit, received, panVars, focusVars, treeVars,
                   hoverVars, timerVars, actionVars>>

\* The texts an EditBox is made with and the contents of the clipboard
InitialTexts == {<<>>, <<"a">>}
Clipboards == {None, Some(<<"b", "LF", "a">>), Some(<<"b", "U+00C0">>)}
InitEdit ==
    /\ InitPan /\ InitKey /\ InitWindow /\ InitOp /\ InitShell
    /\ editable \in BOOLEAN
    /\ text \in InitialTexts
    /\ old_state = None
    /\ last_edit = "None"
    /\ clipboard \in Clipboards
    /\ received = <<[text |-> text, c |-> "new"]>>

NextEdit ==
    \/ \E id \in EditBoxes, c \in EditChars : ReceivedChar(id, c)
    \/ \E id \in EditBoxes, t \in {<<"b">>} : SetText(id, t)
    \/ \E id \in EditBoxes, b \in BOOLEAN : SetEditable(id, b)
    \/ \E clip \in Clipboards \ {None} : SetClipboard(clip[1])

SpecEdit == InitEdit /\ [][NextEdit]_vars

\* ------------------------------------------------ events to popups first
\* An event that neither an EditBox nor a ComboBox handles; the shell routes
\* such events through send_popup_first
Scroll == Event("Scroll", "None", FALSE)

\* send_popup_first that delivers the event to id whatever the parents answer
\* and closes no popup
send_popup_first_all(st, id, ev, answers) ==
    LET s1 == IF st.popups # <<>>
              THEN send(st, st.popups[Len(st.popups)].parent, ev,
                        answers[st.popups[Len(st.popups)].parent])[1]
              ELSE st
    IN send(s1, id, ev, answers[id])[1]

\* Manager::send_popup_first (manager.rs 490-500); answers[w] is the answer
\* of widget w to the event
RECURSIVE send_popup_first(_, _, _, _)
send_popup_first(st, id, ev, answers) ==
    IF st.popups # <<>>
    THEN LET top == st.popups[Len(st.popups)]
             r == send(st, top.parent, ev, answers[top.parent])
         IN IF r[2] # "Unhandled" THEN r[1]
            ELSE send_popup_first(close_window(r[1], top.win), id, ev, answers)
    ELSE send(st, id, ev, answers[id])[1]

\* The widgets of the configured tree
WidgetIds == {core_id[k] : k \in DOMAIN core_id}

\* The shell routes an event for widget id through the popups
SendPopupFirst(id, ev, answers) ==
    /\ KeyCommit(send_popup_first(KeyState, id, ev, answers))
    /\ Returns("send_popup_first", TRUE)
    /\ KeyFrame

\* The events routed through the popups: one that only the answers decide
\* on, and Activate, which the EditBox handles by taking character focus
RoutedEvents == {Scroll, Activate}

\* The window of SpecLookup: widgets 2 and 3 open and close popups, and the
\* shell routes events through them
NextPopupFirst ==
    \/ \E parent \in PopupParents : AddPopupIn(parent, StackWindows)
    \/ \E win \in StackWindows : popups # <<>> /\ popups[Len(popups)].win = win /\ ClosePopup(win)
    \/ \E id \in WidgetIds, ev \in RoutedEvents, answers \in [WidgetIds -> Responses] :
          SendPopupFirst(id, ev, answers)

SpecPopupFirst == InitLookup /\ [][NextPopupFirst]_vars

\* ------------------------------------------------------------- ComboBox
\* The window of SpecCombo: a root with an EditBox, a button and a ComboBox,
\* whose child is its popup.  After configuration the EditBox is widget 1,
\* the button widget 2, the popup widget 3, the ComboBox widget 4 and the
\* root widget 5.
ComboTree == <<0, 1, 1, 1, 4>>
\* The root's layer has S for the button, the layer of the ComboBox has A for
\* an entry of its popup; neither needs Alt.
ComboLayers ==
    (5 :> [bypass |-> TRUE, keys |-> ("S" :> 2)])
    @@ (4 :> [bypass |-> TRUE, keys |-> ("A" :> 3)])

InitCombo ==
    /\ InitPan
    /\ InitFields
    /\ InitOp
    /\ InitShell
    /\ InitEditBox
    /\ tree_parent = ComboTree
    /\ core_id = configure(ComboTree)
    /\ found = None
    /\ accel_layers = ComboLayers
    /\ key_nav = {1, 2, 4}
    /\ nav_fallback = None
    /\ combo = {4}
    /\ disabled = {}

ComboKeys == {"Tab", "Space", "Escape", "S", "A"}
\* An entry of the popup answers Activate with its message
ComboResponses == Responses \cup {"Msg"}

\* The ComboBox c is disabled (b) or enabled again: the flag that
\* ComboBox::send reads (combobox.rs 178) is written
SetDisabled(c, b) ==
    /\ disabled' = IF b THEN disabled \cup {c} ELSE disabled \ {c}
    /\ out' = NoOut
    /\ Returns("set_disabled", TRUE)
    /\ UNCHANGED <<modifiers, char_focus, sel_focus, nav_focus, nav_fallback, key_depress,
                   popups, accel_layers, pending, last_char, key_nav, combo, popup_id,
                   panVars, treeVars, hoverVars>>

\* Keys go down and up and the shell routes events through the popups; the
\* ComboBox is the only widget that opens a popup, and it is disabled and
\* enabled
NextCombo ==
    \/ \E c \in combo, b \in BOOLEAN : SetDisabled(c, b)
    \/ \E k \in ComboKeys, r \in ComboResponses : KeyDown(k, RouteScancode, r)
    \/ KeyUp(RouteScancode)
    \/ \E id \in WidgetIds, answers \in [WidgetIds -> Responses] :
          SendPopupFirst(id, Scroll, answers)

SpecCombo == InitCombo /\ [][NextCombo]_vars


\* ------------------------------------------------- pan gestures: properties
GestureIndices == 0..(Len(pan_grab) - 1)

\* The grabs whose stored pan index is gi: touch ids, and 0 for the press grab
GrabsOn(gi) ==
    {t \in DOMAIN touch_grab : touch_grab[t].pan_grab[1] = gi}
        \cup (IF mouse_grab # None /\ mouse_grab[1].pan_grab[1] = gi
              THEN {MouseSource} ELSE {})

\* C1 as stated: every pan gesture in the list has a point count in {1, 2}.
C1_CountOneOrTwo ==
    \A gi \in GestureIndices : pan_grab[gi + 1].n \in {1, 2}

\* Three touches hold a pan on one widget: its gesture counts 3 points.
C1_Witness ==
    \E gi \in GestureIndices :
        /\ pan_grab[gi + 1].n = 3
        /\ Cardinality(GrabsOn(gi)) = 3
        /\ op = OpRec("request_grab_touch", TRUE)

\* A stored pan index is the sentinel or addresses an entry of the list.
IndexInRange(p) == p[1] = U16_MAX \/ p[1] < Len(pan_grab)

\* The gesture g of the list before a step is still in the list after it.
StillListed(g) ==
    \E j \in 1..Len(pan_grab') :
        /\ pan_grab'[j].id = g.id
        /\ pan_grab'[j].source_is_touch = g.source_is_touch

\* C2: a pan gesture is in the list exactly when a press or touch grab
\* references it by its stored index, and no gesture is removed while a grab
\* that contributed a point to it is still active.
C2_ListedIffReferenced ==
    [][/\ \A gi \in 0..(Len(pan_grab') - 1) : GrabsOn(gi)' # {}
       /\ \A t \in DOMAIN touch_grab' : IndexInRange(touch_grab[t].pan_grab)'
       /\ mouse_grab' # None => IndexInRange(mouse_grab[1].pan_grab)'
       /\ \A t \in DOMAIN touch_grab \cap DOMAIN touch_grab' :
             touch_grab[t].pan_grab[1] < Len(pan_grab)
                 => StillListed(pan_grab[touch_grab[t].pan_grab[1] + 1])
       /\ (mouse_grab # None /\ mouse_grab' # None
             /\ mouse_grab[1].pan_grab[1] < Len(pan_grab))
                 => StillListed(pan_grab[mouse_grab[1].pan_grab[1] + 1])]_vars

\* The step calls remove_pan(i): set_pan_on finds a gesture of the other source
\* kind on the widget, or remove_pan_grab releases the last point of gesture i.
RemovesOnMismatch(id, mode, source_is_touch, i) ==
    /\ mode # "Grab"
    /\ GesturesOn(pan_grab, id) # {}
    /\ i = Min(GesturesOn(pan_grab, id))
    /\ pan_grab[i + 1].source_is_touch # source_is_touch

RemovesLastPoint(g, i) ==
    g[1] < Len(pan_grab) /\ g[1] = i /\ pan_grab[i + 1].n = 1

CallsRemovePan(i) ==
    \/ \E id \in PanWidgets, b \in Buttons, m \in GrabModes, c \in PanCoords :
          /\ mouse_grab = None
          /\ RemovesOnMismatch(id, m, FALSE, i)
          /\ RequestGrabMouse(id, b, m, c)
    \/ \E id \in PanWidgets, t \in TouchIds \ DOMAIN touch_grab, m \in GrabModes,
          c \in PanCoords :
          /\ RemovesOnMismatch(id, m, TRUE, i)
          /\ RequestGrabTouch(id, t, m, c)
    \/ \E b \in Buttons :
          /\ mouse_grab # None
          /\ mouse_grab[1].button = b
          /\ RemovesLastPoint(mouse_grab[1].pan_grab, i)
          /\ EndMouseGrab(b)
    \/ \E t \in DOMAIN touch_grab :
          /\ RemovesLastPoint(touch_grab[t].pan_grab, i)
          /\ TouchEnd(t)

\* What C3 says of one grab that is there before and after remove_pan(i), with
\* stored index p before and q after.
C3_Fixup(i, p, q) ==
    /\ p # i
    /\ (p # U16_MAX /\ p > i) => q = p - 1
    /\ (p = U16_MAX \/ p < i) => q = p

\* C3: remove_pan(i) decrements the stored index of every other grab whose
\* index was greater than i, leaves smaller indices and the sentinel as they
\* are, and no grab whose index was i survives it.
C3_RemovePanFixup ==
    [][\A i \in GestureIndices :
          CallsRemovePan(i) =>
              /\ \A t \in DOMAIN touch_grab \cap DOMAIN touch_grab' :
                    C3_Fixup(i, touch_grab[t].pan_grab[1], touch_grab'[t].pan_grab[1])
              /\ (mouse_grab # None /\ mouse_grab' # None) =>
                    C3_Fixup(i, mouse_grab[1].pan_grab[1], mouse_grab'[1].pan_grab[1])]_vars

\* C4: at most one press grab exists, and a press-grab request made while one
\* is active is rejected and leaves the grab (button, start widget, mode, pan
\* reference) as it was.
C4_SinglePressGrab ==
    [][/\ mouse_grab' = None \/ Len(mouse_grab') = 1
       /\ (mouse_grab # None /\ op'.name = "request_grab_mouse") =>
             \A id \in PanWidgets, b \in Buttons, m \in GrabModes, c \in PanCoords :
                RequestGrabMouse(id, b, m, c) =>
                    /\ mouse_grab' = mouse_grab
                    /\ pan_grab' = pan_grab
                    /\ op'.ret = FALSE]_vars

\* A press-grab request has just been rejected: a press grab is active.
C4_Witness ==
    /\ mouse_grab # None
    /\ mouse_grab[1].pan_grab # NoPan
    /\ op = OpRec("request_grab_mouse", FALSE)

\* Gesture gi is a touch gesture on e with one point, held by touch t alone.
SinglePan(e, t, gi) ==
    /\ gi < Len(pan_grab)
    /\ pan_grab[gi + 1].id = e
    /\ pan_grab[gi + 1].source_is_touch
    /\ pan_grab[gi + 1].n = 1
    /\ GesturesOn(pan_grab, e) = {gi}
    /\ GrabsOn(gi) = {t}
    /\ t \in DOMAIN touch_grab
    /\ touch_grab[t].pan_grab = <<gi, 0>>

\* Gesture gi is a touch gesture on e with two points: touch t1 holds slot 0
\* and touch t2 holds slot 1, and no other grab references it.
PairPan(e, t1, t2, gi) ==
    /\ gi < Len(pan_grab)
    /\ pan_grab[gi + 1].id = e
    /\ pan_grab[gi + 1].source_is_touch
    /\ pan_grab[gi + 1].n = 2
    /\ GesturesOn(pan_grab, e) = {gi}
    /\ GrabsOn(gi) = {t1, t2}
    /\ t1 # t2
    /\ {t1, t2} \subseteq DOMAIN touch_grab
    /\ touch_grab[t1].pan_grab = <<gi, 0>>
    /\ touch_grab[t2].pan_grab = <<gi, 1>>

\* C9: two touches that request a PanFull grab on the same widget, which has
\* no gesture beforehand, share one gesture with count 2 and slots 0 and 1;
\* ending either leaves the gesture listed with count 1; ending the other
\* removes it.
C9_TwoTouchPan ==
    [][/\ op'.name = "request_grab_touch" =>
             \A e \in PanWidgets, t1 \in TouchIds \ DOMAIN touch_grab, c \in PanCoords :
                /\ \A gj \in {Len(pan_grab)} :
                      (GesturesOn(pan_grab, e) = {}
                         /\ RequestGrabTouch(e, t1, "PanFull", c))
                         => SinglePan(e, t1, gj)'
                /\ \A gi \in GestureIndices : \A t0 \in GrabsOn(gi) :
                      (SinglePan(e, t0, gi) /\ RequestGrabTouch(e, t1, "PanFull", c))
                         => PairPan(e, t0, t1, gi)'
       /\ op'.name = "touch_end" =>
             \A gi \in GestureIndices : \A t1 \in GrabsOn(gi), t2 \in GrabsOn(gi) :
                \A e \in {pan_grab[gi + 1].id} :
                   /\ (PairPan(e, t1, t2, gi) /\ TouchEnd(t1)) => SinglePan(e, t2, gi)'
                   /\ (PairPan(e, t1, t2, gi) /\ TouchEnd(t2)) => SinglePan(e, t1, gi)'
                   /\ (SinglePan(e, t1, gi) /\ TouchEnd(t1))
                         => GesturesOn(pan_grab, e)' = {}]_vars

\* One of two touches of a pan has just ended: the other holds the gesture.
C9_Witness ==
    /\ op = OpRec("touch_end", TRUE)
    /\ \E e \in PanWidgets, t \in TouchIds, gi \in GestureIndices :
          SinglePan(e, t, gi) /\ pan_grab[gi + 1].mode = "PanFull"

\* ------------------------------------------------- widget tree: properties
\* The nodes of the subtree of a, and their identifiers
Subtree(a) == {a} \cup {b \in DOMAIN tree_parent : a \in AncestorsOf(tree_parent, b)}
SubtreeIds(a) == {core_id[b] : b \in Subtree(a)}

Max(S) == CHOOSE x \in S : \A y \in S : x >= y
Contiguous(S) == S = Min(S)..Max(S)

\* The node of the subtree of a that has the identifier id, if there is one
Holder(a, id) ==
    IF \E b \in Subtree(a) : core_id[b] = id
    THEN Some(CHOOSE b \in Subtree(a) : core_id[b] = id)
    ELSE None

\* find and find_mut from any node give the node of its subtree that has the
\* identifier, and None for an identifier its subtree does not have; a widget
\* with one child routes an identifier of its subtree to the child exactly
\* when the child's subtree has it; and the last lookup made gave that result.
LookupConsistent ==
    /\ \A a \in DOMAIN tree_parent, id \in 0..(MaxNodes + 1) :
          /\ find(tree_parent, core_id, a, id) = Holder(a, id)
          /\ find_mut(tree_parent, core_id, a, id) = Holder(a, id)
    /\ \A a \in DOMAIN tree_parent :
          Len(Children(tree_parent, a)) = 1 =>
              \A id \in SubtreeIds(a) :
                  SendToPopup(core_id, Children(tree_parent, a)[1], id)
                      <=> id \in SubtreeIds(Children(tree_parent, a)[1])
    /\ found # None =>
          /\ found[1].res = Holder(found[1].from, found[1].id)
          /\ found[1].res_mut = Holder(found[1].from, found[1].id)

\* C6 as stated: after a configuration pass every element has a smaller
\* identifier than each of its descendants, the identifiers of a subtree are
\* a contiguous range, and lookup by identifier is consistent with that.
C6_ParentBelowDescendants ==
    Configured =>
        /\ \A a \in DOMAIN tree_parent : \A b \in Subtree(a) \ {a} : core_id[a] < core_id[b]
        /\ \A a \in DOMAIN tree_parent : Contiguous(SubtreeIds(a))
        /\ LookupConsistent

\* What the code does instead: after a configuration pass every element has
\* a greater identifier than each of its descendants (children are numbered
\* before their parent), the identifiers of a subtree are a contiguous range
\* that ends at the identifier of its root, and find, find_mut and the
\* routing of send by identifier give the element that has the identifier.
ParentAboveDescendants ==
    Configured =>
        /\ \A a \in DOMAIN tree_parent : \A b \in Subtree(a) \ {a} : core_id[a] > core_id[b]
        /\ \A a \in DOMAIN tree_parent :
              Contiguous(SubtreeIds(a)) /\ Max(SubtreeIds(a)) = core_id[a]
        /\ LookupConsistent

\* A lookup from the root of a configured tree has found a grandchild, whose
\* identifier is below its parent's and the root's.
C6_Witness ==
    /\ Configured
    /\ found # None
    /\ found[1].from = TreeRoot
    /\ found[1].res # None
    /\ found[1].res_mut = found[1].res
    /\ tree_parent[found[1].res[1]] \notin {0, TreeRoot}
    /\ core_id[found[1].res[1]] < core_id[tree_parent[found[1].res[1]]]
    /\ core_id[tree_parent[found[1].res[1]]] < core_id[TreeRoot]

\* ------------------------------------------------ focus and keys: properties
\* C5: between calls, character focus implies that selection focus is set,
\* and set to the widget that last received character focus.
C5_CharFocusOnSel ==
    char_focus => (sel_focus # None /\ sel_focus = last_char)

\* Character focus is held after a key-down, with notifications of an earlier
\* change of focus still queued.
C5_Witness ==
    /\ char_focus
    /\ sel_focus = last_char
    /\ op.name = "key_down"
    /\ out.sent # <<>>
    /\ pending # <<>>

LostKinds == {"LostCharFocus", "LostSelFocus"}

\* What C7 says of a call set_char_focus(Some(y)) made while selection focus
\* is on another widget
C7_After(y) ==
    LET x == sel_focus[1] IN
    /\ pending' = pending \o (IF char_focus
                              THEN <<PendingOf("LostCharFocus", x), PendingOf("LostSelFocus", x)>>
                              ELSE <<PendingOf("LostSelFocus", x)>>)
    /\ sel_focus' = Some(y)
    /\ char_focus'
    /\ nav_focus' = Some(y)

\* C7: when X holds selection and character focus and character focus is set
\* to another widget Y, LostCharFocus(X) and then LostSelFocus(X) are appended
\* to the queue, once each, and after the call selection and navigation focus
\* are on Y and character focus is active; when X holds selection focus only,
\* LostSelFocus(X) alone is appended.  The call is made by a widget directly,
\* or by an EditBox that a key-down activates.
C7_FocusMoves ==
    [][/\ op'.name = "set_char_focus" =>
             \A y \in 1..MaxNodes :
                (sel_focus \notin {None, Some(y)} /\ SetCharFocus(Some(y))) => C7_After(y)
       /\ op'.name = "key_down" =>
             \A y \in EditBoxes :
                (/\ sel_focus \notin {None, Some(y)}
                 /\ \E i \in 1..Len(out'.sent) : out'.sent[i] = [to |-> y, ev |-> Activate])
                    => C7_After(y)]_vars

\* Character focus has just moved from one widget to another: the queue ends
\* with the two notifications for the widget that lost it.
C7_Witness ==
    /\ op.name = "set_char_focus"
    /\ char_focus
    /\ \E x \in 1..MaxNodes, y \in 1..MaxNodes :
          /\ x # y
          /\ sel_focus = Some(y)
          /\ nav_focus = Some(y)
          /\ Len(pending) >= 3
          /\ SubSeq(pending, Len(pending) - 1, Len(pending))
                = <<PendingOf("LostCharFocus", x), PendingOf("LostSelFocus", x)>>

\* The notifications that the events delivered in a call carry
LostSent(sent) ==
    SelectSeq(sent, LAMBDA d : d.ev.kind \in LostKinds)

RECURSIVE AsPending(_)
AsPending(sent) ==
    IF sent = <<>> THEN <<>>
    ELSE <<PendingOf(Head(sent).ev.kind, Head(sent).to)>> \o AsPending(Tail(sent))

\* C8: a change of focus delivers no focus-loss notification: the call that
\* makes it only appends to the queue and sends nothing by itself, and a
\* notification is delivered only by a later call, which takes it from the
\* queue that the earlier calls left.
C8_Deferred ==
    [][/\ op'.name = "set_char_focus" => out'.sent = <<>>
       /\ op'.name # "update" =>
             /\ LostSent(out'.sent) = <<>>
             /\ Len(pending') >= Len(pending)
             /\ SubSeq(pending', 1, Len(pending)) = pending
       /\ op'.name = "update" =>
             /\ AsPending(LostSent(out'.sent)) = pending
             /\ pending' = <<>>]_vars

\* A key-down has activated an EditBox, which took character focus from
\* another widget: the notifications are queued and none has been delivered.
C8_Witness ==
    /\ op.name = "key_down"
    /\ \E i \in 1..Len(out.sent) : out.sent[i].ev = Activate /\ out.sent[i].to \in EditBoxes
    /\ LostSent(out.sent) = <<>>
    /\ Len(pending) >= 2
    /\ pending[Len(pending)].kind = "LostSelFocus"

\* The case of C10: Alt is held, no popup is open, navigation focus is unset,
\* character focus is inactive, the root's accelerator layer maps k to e and
\* no held key is recorded on e.
C10_Case(k, e) ==
    /\ modifiers.alt
    /\ popups = <<>>
    /\ nav_focus = None
    /\ ~char_focus
    /\ RootId \in DOMAIN accel_layers
    /\ k \in DOMAIN accel_layers[RootId].keys
    /\ accel_layers[RootId].keys[k] = e
    /\ \A s \in DOMAIN key_depress : key_depress[s] # e

Activations(sent, e) == Len(SelectSeq(sent, LAMBDA d : d.to = e /\ d.ev = Activate))

\* What C10 says of the key-down of scancode sc
C10_Down(sc, e) ==
    /\ Activations(out'.sent, e) = 1
    /\ DOMAIN key_depress' = DOMAIN key_depress \cup {sc}
    /\ key_depress'[sc] = e
    /\ \A s \in DOMAIN key_depress \ {sc} : key_depress'[s] = key_depress[s]

\* What C10 says of a key-up of scancode sc: the record of sc is removed and
\* its widget is redrawn; the other records stay and no other widget is
\* redrawn.
C10_Up(sc) ==
    /\ DOMAIN key_depress' = DOMAIN key_depress \ {sc}
    /\ \A s \in DOMAIN key_depress' : key_depress'[s] = key_depress[s]
    /\ out'.redraw = IF sc \in DOMAIN key_depress THEN <<key_depress[sc]>> ELSE <<>>

\* What C10 says of a key-up of scancode sc with respect to a record held
\* under another scancode: the key-up changes nothing
C10_UpChangesNothing(sc) ==
    (DOMAIN key_depress \ {sc} # {}) =>
        /\ key_depress' = key_depress
        /\ out'.redraw = <<>>

\* What C10 says of a step: of the key-downs of the keys ks, and of the
\* key-ups what Released says
C10_Holds(ks, Released(_)) ==
    /\ op'.name = "key_down" =>
          \A k \in ks, e \in 1..MaxNodes :
             C10_Case(k, e) =>
                 \A sc \in Scancodes, r \in Responses :
                     KeyDown(k, sc, r) => C10_Down(sc, e)
    /\ op'.name = "key_up" =>
          \A sc \in Scancodes : KeyUp(sc) => Released(sc)

\* C10 as stated: in the case above a key-down of any key k delivers one
\* Activate to e and records scancode -> e; a key-up of that scancode removes
\* the record and redraws e; a key-up of a scancode other than that of a
\* record changes nothing.
C10_AnyAccelKey ==
    [][C10_Holds(Keys, LAMBDA sc : C10_Up(sc) /\ C10_UpChangesNothing(sc))]_vars

\* C10 as stated but for Tab: what it says of the key-ups fails, a key-up
\* whose scancode differs from that of one record removes the record held
\* under its own scancode.
C10_AccelKeyOtherUpChangesNothing ==
    [][C10_Holds(Keys \ {"Tab"}, LAMBDA sc : C10_Up(sc) /\ C10_UpChangesNothing(sc))]_vars

\* C10 as stated but for the key-up of another scancode, which leaves the
\* record as it is: what it says of the key-downs fails for Tab.
C10_AnyAccelKeyOtherUpLeavesRecord ==
    [][C10_Holds(Keys, C10_Up)]_vars

\* C10 amended: in the case above a key-down of any key k other than Tab
\* delivers one Activate to e and records scancode -> e; a key-up of that
\* scancode removes the record and redraws e; a key-up of another scancode
\* leaves the record as it is, and changes nothing but the record held under
\* its own scancode, if there is one.
C10_AccelKey ==
    [][C10_Holds(Keys \ {"Tab"}, C10_Up)]_vars

\* A key-up has just removed the record of its scancode and redrawn the
\* widget of that record while the record of another scancode stays.
C10_WitnessOtherUp ==
    /\ op.name = "key_up"
    /\ key_depress # <<>>
    /\ out.redraw # <<>>
    /\ \A sc \in DOMAIN key_depress : key_depress[sc] # out.redraw[1]

\* An accelerator key has just gone down with Alt held: its widget got one
\* Activate and the scancode is recorded on it.
C10_Witness ==
    /\ op.name = "key_down"
    /\ modifiers.alt
    /\ popups = <<>>
    /\ \E sc \in DOMAIN key_depress :
          /\ key_depress[sc] = accel_layers[RootId].keys["S"]
          /\ out.sent = <<[to |-> key_depress[sc], ev |-> Activate]>>
          /\ out.redraw = <<key_depress[sc]>>

\* ------------------------------------------------ key routing: properties
\* The layer of widget id is eligible and has the key k
LayerHas(id, k) ==
    /\ id \in DOMAIN accel_layers
    /\ modifiers.alt \/ accel_layers[id].bypass
    /\ k \in DOMAIN accel_layers[id].keys

\* The key k goes to the accelerator lookup: character focus is not active,
\* k is not Tab and nothing is resolved from navigation focus, a popup parent
\* or the navigation fallback
AtLookup(k) ==
    /\ ~(char_focus /\ sel_focus # None)
    /\ k # "Tab"
    /\ NavTarget(KeyState, k, modifiers.shift) = None

\* Popups are open, no eligible layer of a popup parent has k, the root's has
C11_Case(k) ==
    /\ popups # <<>>
    /\ \A i \in 1..Len(popups) : ~LayerHas(popups[i].parent, k)
    /\ LayerHas(RootId, k)

\* What C11 says of the key-down of k: the popups are closed from the top of
\* the stack down, then the root layer's widget for k gets its one event, and
\* no popup is left
C11_Closed(k) ==
    LET n == Len(popups)
        target == accel_layers[RootId].keys[k]
    IN /\ Len(out'.order) = n + 1
       /\ \A i \in 1..n : out'.order[i] = <<"close", popups[n + 1 - i].win>>
       /\ out'.order[n + 1] = <<"send", target>>
       /\ out'.sent = <<[to |-> target, ev |-> Activate]>>
       /\ out'.closed = [i \in 1..n |-> popups[n + 1 - i].win]
       /\ popups' = <<>>

\* What C11 says of a step, for the keys for which When holds
C11_Holds(When(_)) ==
    op'.name = "key_down" =>
        \A k \in RouteKeys :
           C11_Case(k) /\ When(k) =>
              \A r \in Responses : KeyDown(k, RouteScancode, r) => C11_Closed(k)

\* C11 as stated: when popups are open and the pressed key matches no
\* eligible layer of a popup parent but matches the root layer, every popup
\* is closed, topmost first, before the root layer's widget gets the event,
\* which it gets once and with no popup left.
C11_RootMatch == [][C11_Holds(LAMBDA k : TRUE)]_vars

\* C11 as stated, for the keys other than Tab pressed while character focus
\* is inactive: it fails for a key that is resolved from navigation focus or
\* to the parent of the topmost popup.
C11_RootMatchUnresolved ==
    [][C11_Holds(LAMBDA k : ~(char_focus /\ sel_focus # None) /\ k # "Tab")]_vars

\* C11 as stated, for the keys other than Tab that nothing resolves before
\* the lookup: it fails while character focus is active.
C11_RootMatchNoCharFocus ==
    [][C11_Holds(LAMBDA k : k # "Tab" /\ NavTarget(KeyState, k, modifiers.shift) = None)]_vars

\* C11 as stated, for the keys that nothing resolves before the lookup,
\* pressed while character focus is inactive: it fails for Tab.
C11_RootMatchAnyKey ==
    [][C11_Holds(LAMBDA k : /\ ~(char_focus /\ sel_focus # None)
                         /\ NavTarget(KeyState, k, modifiers.shift) = None)]_vars

\* C11 amended: when popups are open and the pressed key reaches the
\* accelerator lookup, where it matches no eligible layer of a popup parent
\* but matches the root layer, every popup is closed, topmost first, before
\* the root layer's widget gets the event, which it gets once and with no
\* popup left.
C11_RootMatchAtLookup == [][C11_Holds(AtLookup)]_vars

\* A key-down has just closed two popups and then delivered an Activate to
\* the root layer's widget for the key.
C11_Witness ==
    /\ op.name = "key_down"
    /\ popups = <<>>
    /\ Len(out.closed) = 2
    /\ Len(out.order) = 3
    /\ out.order[3] = <<"send", accel_layers[RootId].keys["S"]>>
    /\ out.sent = <<[to |-> accel_layers[RootId].keys["S"], ev |-> Activate]>>

\* Where a Tab key-down moves navigation focus from x
TabNext(x, backward) ==
    next_nav_focus([KeyState EXCEPT !.nav_focus = x], backward)[1].nav_focus

\* The navigation focus after each of k Tab key-downs without Shift, from x
RECURSIVE TabRun(_, _)
TabRun(x, k) ==
    IF k = 0 THEN <<>>
    ELSE <<TabNext(x, FALSE)>> \o TabRun(TabNext(x, FALSE), k - 1)

Focusable == {Some(w) : w \in key_nav}

\* From any navigation focus, as many Tab key-downs as there are focusable
\* widgets visit them all, so each once, and one more returns to the first
\* visited; a Tab with Shift undoes a Tab without
C12_Orbit ==
    LET n == Cardinality(key_nav)
    IN n > 0 =>
          \A x \in {None} \cup Focusable :
             LET run == TabRun(x, n + 1)
             IN /\ {run[i] : i \in 1..n} = Focusable
                /\ run[n + 1] = run[1]
                /\ TabNext(run[1], TRUE) = IF x = None THEN run[n] ELSE x
                /\ \A i \in 1..n : TabNext(run[i + 1], TRUE) = run[i]

\* A Tab key-down with character focus inactive moves navigation focus one
\* step along that cycle, backwards with Shift
C12_Step ==
    op'.name = "key_down" /\ ~(char_focus /\ sel_focus # None) /\ key_nav # {} =>
        \A r \in Responses :
            KeyDown("Tab", RouteScancode, r) =>
                nav_focus' = TabNext(nav_focus, modifiers.shift)

\* C12: while character focus is not active, repeated Tab key-downs without
\* Shift move navigation focus through every focusable widget exactly once
\* before it returns to the first one; with Shift the same cycle is traversed
\* in reverse.
C12_TabCycle == []C12_Orbit /\ [][C12_Step]_vars

\* A Tab key-down without Shift has just given navigation focus to the first
\* of three focusable widgets, while the last of them is still held down from
\* its activation: the traversal has wrapped around.
C12_Witness ==
    /\ op.name = "key_down"
    /\ ~modifiers.shift
    /\ ~char_focus
    /\ Cardinality(key_nav) = 3
    /\ nav_focus = Some(KeyNav[1])
    /\ out.sent = <<[to |-> KeyNav[1], ev |-> NavFocus]>>
    /\ RouteScancode \in DOMAIN key_depress
    /\ key_depress[RouteScancode] = KeyNav[3]

\* What the widget id answers to the event ev, when another widget than an
\* EditBox answers resp
Answer(id, ev, resp) == send(KeyState, id, ev, resp)[2]

\* What C13 says of the key-down of k while e has selection and character
\* focus
C13_Routed(k, e, resp) ==
    LET cmd == opt_command(modifiers, k)
        ev == Command(cmd[1], modifiers.shift)
    IN /\ out'.sent = IF cmd # None THEN <<[to |-> e, ev |-> ev]>> ELSE <<>>
       /\ nav_focus' = nav_focus
       /\ popups' = popups
       /\ out'.closed = <<>>
       /\ key_depress' = key_depress
       /\ out'.redraw = <<>>
       /\ sel_focus' = Some(e)
       /\ char_focus' = ~(cmd = Some("Escape") /\ Answer(e, ev, resp) = "Unhandled")

\* C13: while character focus is active and selection focus is set, a key-down
\* is routed only to the selection-focus widget, as a Command when the key is
\* bound to one; navigation focus, the popups and the depressed keys stay as
\* they are and no accelerator is triggered; character focus is cleared
\* exactly when the command is Escape and the widget answers Unhandled, and
\* selection focus stays.
C13_CharFocusRouting ==
    [][op'.name = "key_down" /\ char_focus /\ sel_focus # None =>
          \A k \in Keys, r \in Responses :
             KeyDown(k, RouteScancode, r) => C13_Routed(k, sel_focus[1], r)]_vars

\* An Escape key-down has just ended the character focus of the widget with
\* selection focus: the widget got the command, the loss is queued, and the
\* open popup and navigation focus are still there.
C13_Witness ==
    /\ op.name = "key_down"
    /\ ~char_focus
    /\ sel_focus # None
    /\ popups # <<>>
    /\ nav_focus # None
    /\ \E sh \in BOOLEAN : out.sent = <<[to |-> sel_focus[1], ev |-> Command("Escape", sh)]>>
    /\ out.closed = <<>>
    /\ pending # <<>>
    /\ pending[Len(pending)] = PendingOf("LostCharFocus", sel_focus[1])

\* What C14 says of a Tab key-down: navigation focus is the next (with Shift
\* the previous) focusable widget, or unset when there is none; the widget
\* that now has it gets one NavFocus and nothing else is delivered; no key is
\* recorded, no popup closed and the other focus fields stay
C14_Tabbed ==
    /\ nav_focus' = IF key_nav = {} THEN None ELSE TabNext(nav_focus, modifiers.shift)
    /\ nav_focus' # None => out'.sent = <<[to |-> nav_focus'[1], ev |-> NavFocus]>>
    /\ nav_focus' = None => out'.sent = <<>>
    /\ key_depress' = key_depress
    /\ popups' = popups
    /\ out'.closed = <<>>
    /\ UNCHANGED <<char_focus, sel_focus, pending>>

\* C14: on a Tab key-down with character focus inactive, navigation focus is
\* advanced (reversed with Shift) and cleared if no focusable widget is found;
\* then one NavFocus is delivered to the widget that holds navigation focus,
\* or nothing if none does; no Activate or Command is delivered, no
\* accelerator is looked up and no key is recorded, with or without Alt.
C14_TabKey ==
    [][op'.name = "key_down" /\ ~char_focus =>
          \A r \in Responses : KeyDown("Tab", RouteScancode, r) => C14_Tabbed]_vars

\* A Tab key-down in a window without focusable widgets has just cleared the
\* navigation focus that a widget had taken with character focus: the
\* widget is redrawn and no event is delivered.
C14_Witness ==
    /\ op.name = "key_down"
    /\ key_nav = {}
    /\ nav_focus = None
    /\ ~char_focus
    /\ sel_focus # None
    /\ out.redraw = <<sel_focus[1]>>
    /\ out.sent = <<>>

\* The event the navigation-focus rule gives the key k, if any
C15_Event(k) ==
    IF k \in ActivateKeys THEN Some(Activate)
    ELSE IF opt_command(modifiers, k) # None
    THEN Some(Command(opt_command(modifiers, k)[1], modifiers.shift))
    ELSE None

\* The target of the first eligible layer that has k, the parent of the top
\* popup first and the root last
FirstLayerTarget(k) ==
    LET owners == LayerOwners(KeyState)
        hits == {i \in 1..Len(owners) : LayerHas(owners[i], k)}
    IN IF hits = {} THEN None ELSE Some(accel_layers[owners[Min(hits)]].keys[k])

\* Without Alt the key k goes to n first, as the event of the rule; with Alt
\* no Command is delivered and an Activate only to the widget an accelerator
\* layer names
C15_Resolved(k, n) ==
    /\ ~modifiers.alt /\ C15_Event(k) # None =>
          /\ out'.sent = <<[to |-> n, ev |-> C15_Event(k)[1]]>>
          /\ out'.order[1] = <<"send", n>>
    /\ modifiers.alt =>
          \A i \in 1..Len(out'.sent) :
             /\ out'.sent[i].ev.kind # "Command"
             /\ out'.sent[i].ev = Activate => Some(out'.sent[i].to) = FirstLayerTarget(k)

\* C15 as stated: with Alt not held, character focus inactive and navigation
\* focus on n, a key-down of Space, Return or NumpadEnter is an Activate for n
\* and a key-down of any other key bound to a command is a Command(cmd, shift)
\* for n, before popup parents, the navigation fallback and the accelerator
\* layers; with Alt held the rule is skipped.
C15_NavFocusFirst ==
    [][op'.name = "key_down" /\ ~char_focus /\ nav_focus # None =>
          \A k \in RouteKeys, r \in Responses :
             C15_Resolved(k, nav_focus[1]) \/ ~KeyDown(k, RouteScancode, r)]_vars

\* C15 amended: the same for every key other than Tab; a Tab key-down moves
\* navigation focus whatever command Tab is bound to.
C15_NavFocusFirstButTab ==
    [][op'.name = "key_down" /\ ~char_focus /\ nav_focus # None =>
          \A k \in RouteKeys \ {"Tab"}, r \in Responses :
             C15_Resolved(k, nav_focus[1]) \/ ~KeyDown(k, RouteScancode, r)]_vars

\* A key-down without Alt has just been delivered as a Command to the widget
\* with navigation focus, although a popup of another widget is open and a
\* navigation fallback is registered.
C15_Witness ==
    /\ op.name = "key_down"
    /\ ~modifiers.alt
    /\ ~char_focus
    /\ nav_focus # None
    /\ nav_fallback # None
    /\ popups # <<>>
    /\ popups[Len(popups)].parent # nav_focus[1]
    /\ nav_fallback # nav_focus
    /\ out.sent = <<[to |-> nav_focus[1], ev |-> Command("Left", modifiers.shift)]>>

\* The case of C16: Alt is not held, nothing is resolved from navigation
\* focus and k is bound to a command
C16_Stated(k) ==
    /\ ~modifiers.alt
    /\ nav_focus = None
    /\ opt_command(modifiers, k) # None

\* The same for a key other than Tab
C16_Case(k) == C16_Stated(k) /\ k # "Tab"

\* What is delivered on an accelerator lookup of k
C16_Lookup(k) ==
    IF FirstLayerTarget(k) = None THEN <<>>
    ELSE <<[to |-> FirstLayerTarget(k)[1], ev |-> Activate]>>

C16_Resolved(k) ==
    LET ev == Command(opt_command(modifiers, k)[1], modifiers.shift)
    IN IF popups # <<>>
       THEN /\ out'.sent = <<[to |-> popups[Len(popups)].parent, ev |-> ev]>>
            /\ out'.order[1] = <<"send", popups[Len(popups)].parent>>
       ELSE IF nav_fallback # None
       THEN /\ out'.sent = <<[to |-> nav_fallback[1], ev |-> ev]>>
            /\ out'.closed = <<>>
       ELSE out'.sent = C16_Lookup(k)

\* What C16 says of a step, for the keys for which When holds
C16_Holds(When(_)) ==
    op'.name = "key_down" /\ ~modifiers.alt /\ nav_focus = None =>
        \A k \in RouteKeys, r \in Responses :
           When(k) =>
              C16_Resolved(k) \/ ~KeyDown(k, RouteScancode, r)

\* C16 as stated: when Alt is not held and no target is resolved from
\* navigation focus, a key-down of a key bound to a command is delivered as
\* a Command to the parent of the topmost popup if a popup is open, otherwise
\* to the navigation fallback if one is set; only when there is neither does
\* the key go to the accelerator lookup.
C16_PopupThenFallbackAnyKey == [][C16_Holds(C16_Stated)]_vars

\* C16 amended: when Alt is not held and no target is resolved from
\* navigation focus, a key-down of a key other than Tab that is bound to a
\* command is delivered as a Command to the parent of the topmost popup if a
\* popup is open, otherwise to the navigation fallback if one is set; only
\* when there is neither does the key go to the accelerator lookup.  (While
\* character focus is active navigation focus is set, so the case excludes
\* it.)
C16_PopupThenFallback == [][C16_Holds(C16_Case)]_vars

\* A key-down has just been delivered as a Command to the navigation
\* fallback: no popup is open and navigation focus is unset.
C16_Witness ==
    /\ op.name = "key_down"
    /\ ~modifiers.alt
    /\ ~char_focus
    /\ nav_focus = None
    /\ popups = <<>>
    /\ nav_fallback # None
    /\ out.sent = <<[to |-> nav_fallback[1], ev |-> Command("Left", modifiers.shift)]>>

\* A key-down has just been delivered as a Command to the parent of the
\* topmost of two popups, past the navigation fallback.
C16_WitnessPopup ==
    /\ op.name = "key_down"
    /\ ~modifiers.alt
    /\ nav_focus = None
    /\ Len(popups) = 2
    /\ nav_fallback # None
    /\ nav_fallback[1] # popups[2].parent
    /\ popups[1].parent # popups[2].parent
    /\ out.sent = <<[to |-> popups[2].parent, ev |-> Command("Left", modifiers.shift)]>>

\* A key-down of Left has just gone to the accelerator lookup: there is no
\* popup and no navigation fallback, and the root's layer names widget 3.
C16_WitnessLookup ==
    /\ op.name = "key_down"
    /\ ~modifiers.alt
    /\ popups = <<>>
    /\ nav_fallback = None
    /\ nav_focus = None
    /\ out.sent = <<[to |-> accel_layers[RootId].keys["Left"], ev |-> Activate]>>
    /\ out.closed = <<>>

\* The positions of the eligible layers that have k, in the order of the
\* lookup: 1 is the parent of the topmost popup, the last is the root
C17_Hits(k) ==
    {i \in 1..(Len(popups) + 1) : LayerHas(LayerOwners(KeyState)[i], k)}

\* The windows of the m - 1 topmost popups, topmost first
C17_Above(m) == [i \in 1..(m - 1) |-> popups[Len(popups) + 1 - i].win]

\* What C17 says of a key-down of k that goes to the lookup; extra tells
\* whether the popup that is topmost after the lookup is closed as well
C17_Outcome(k, extra) ==
    IF C17_Hits(k) = {}
    THEN /\ out'.sent = <<>>
         /\ out'.closed = <<>>
         /\ popups' = popups
    ELSE LET m == Min(C17_Hits(k))
             kept == Len(popups) - (m - 1)
             target == accel_layers[LayerOwners(KeyState)[m]].keys[k]
         IN /\ out'.sent = <<[to |-> target, ev |-> Activate]>>
            /\ \A i \in 1..(m - 1) : out'.order[i] = <<"close", C17_Above(m)[i]>>
            /\ out'.order[m] = <<"send", target>>
            /\ IF extra /\ kept > 0
               THEN /\ out'.closed = Append(C17_Above(m), popups[kept].win)
                    /\ popups' = SubSeq(popups, 1, kept - 1)
               ELSE /\ out'.closed = C17_Above(m)
                    /\ popups' = SubSeq(popups, 1, kept)

\* C17 as stated: the lookup takes the first eligible layer that has the key,
\* from the parent of the topmost popup down to the root; a layer is eligible
\* only with Alt held or alt-bypass; the layer's widget gets an Activate,
\* exactly the popups above the layer's owner are closed and the others stay
\* open; with no match nothing is closed and nothing is delivered.
C17_FirstLayerWins ==
    [][op'.name = "key_down" =>
          \A k \in RouteKeys, r \in Responses :
             AtLookup(k) =>
                C17_Outcome(k, FALSE) \/ ~KeyDown(k, RouteScancode, r)]_vars

\* The Activate of the lookup is for Escape and is left unhandled
C17_EscapeUnhandled(k, r) ==
    /\ k = "Escape"
    /\ C17_Hits(k) # {}
    /\ Answer(accel_layers[LayerOwners(KeyState)[Min(C17_Hits(k))]].keys[k],
              Activate, r) = "Unhandled"

\* C17 amended: the same, except that when the key is Escape and the widget
\* leaves the Activate unhandled, the topmost popup that the lookup left open
\* is closed after the delivery.
C17_FirstLayerWinsButEscape ==
    [][op'.name = "key_down" =>
          \A k \in RouteKeys, r \in Responses :
             AtLookup(k) =>
                \/ C17_Outcome(k, C17_EscapeUnhandled(k, r))
                \/ ~KeyDown(k, RouteScancode, r)]_vars

\* A key-down with Alt not held has just passed the layer of the topmost
\* popup's parent, which needs Alt, and matched the root's: the topmost popup
\* was closed and the root layer's widget for S got the Activate.
C17_Witness ==
    /\ op.name = "key_down"
    /\ ~modifiers.alt
    /\ nav_focus = None
    /\ Len(out.closed) = 1
    /\ popups = <<>>
    /\ out.order = <<<<"close", out.closed[1]>>, <<"send", accel_layers[RootId].keys["S"]>>>>
    /\ out.sent = <<[to |-> accel_layers[RootId].keys["S"], ev |-> Activate]>>

\* A key-down with Alt held has just matched the layer of the lower popup's
\* parent: the popup above was closed and the matching layer's popup is open.
C17_WitnessMiddle ==
    /\ op.name = "key_down"
    /\ modifiers.alt
    /\ Len(popups) = 1
    /\ Len(out.closed) = 1
    /\ popups[1].parent # RootId
    /\ "S" \in DOMAIN accel_layers[popups[1].parent].keys
    /\ out.sent = <<[to |-> accel_layers[popups[1].parent].keys["S"], ev |-> Activate]>>
    /\ accel_layers[popups[1].parent].keys["S"] # accel_layers[RootId].keys["S"]

\* ----------------------------------------------- ending a press: properties
\* The gestures of a list as <<element, source is touch, point count>>
GestureSet(pg) == {<<pg[i].id, pg[i].source_is_touch, pg[i].n>> : i \in 1..Len(pg)}

\* What C18 says of end_mouse_grab(b) when the press grab is for button b
C18_Ended ==
    LET grab == mouse_grab[1]
    IN /\ ~panicked'
       /\ mouse_grab' = None
       /\ cursor_icon' = hover_icon
       /\ out'.redraw = <<grab.start_id>>
       /\ IF grab.mode = "Grab"
          THEN pan_grab' = pan_grab
          ELSE /\ GestureSet(pan_grab') = GestureSet(pan_grab) \ {<<grab.start_id, FALSE, 1>>}
               /\ \A i \in 1..Len(pan_grab') : pan_grab'[i].source_is_touch

\* C18: end_mouse_grab(button) with a press grab for that button clears the
\* grab, sets the shell's cursor to the stored hover icon, asks for a redraw of
\* the grab's start widget and releases the grab's point in its pan gesture;
\* with no press grab, or a grab for another button, nothing changes.
C18_EndMouseGrab ==
    [][\A b \in Buttons :
          EndMouseGrab(b) =>
             IF mouse_grab # None /\ mouse_grab[1].button = b
             THEN C18_Ended
             ELSE /\ UNCHANGED <<panVars, focusVars, treeVars, hoverVars>>
                  /\ out'.redraw = <<>>]_vars

\* The press grab has just been ended and a touch that is still down in a pan
\* mode has lost its gesture: no gesture of the list is on the touch's widget.
C18_Witness ==
    /\ op = OpRec("end_mouse_grab", TRUE)
    /\ ~panicked
    /\ mouse_grab = None
    /\ \E t \in DOMAIN touch_grab :
          /\ touch_grab[t].mode # "Grab"
          /\ \A i \in 1..Len(pan_grab) : pan_grab[i].id # touch_grab[t].start_id

\* ------------------------------------------------------- hover: properties
\* The widgets a call asked a redraw for
Redrawn == {out.redraw[i] : i \in 1..Len(out.redraw)}

\* What C20 says of set_hover(b) while the hover target is another one
C20_Changed(b) ==
    /\ hover' = b
    /\ \A id \in 1..MaxNodes :
          id \in Redrawn' <=> /\ hover = Some(id) \/ b = Some(id)
                              /\ hover_highlight(id)

\* C20: set_hover from a target a to a different target b asks a redraw of a
\* iff a is highlighted under the mouse and of b iff b is, and stores b as the
\* hover target; set_hover with the current target changes no state, asks no
\* redraw and sets no cursor icon.
C20_SetHover ==
    [][\A b \in HoverTargets :
          SetHover(b) =>
             IF hover # b
             THEN C20_Changed(b)
             ELSE /\ UNCHANGED <<panVars, focusVars, treeVars, hoverVars>>
                  /\ out' = NoOut]_vars

\* The hover target has just moved from the button, which is highlighted and
\* so redrawn, to the EditBox, which is not.
C20_Witness ==
    /\ op = OpRec("set_hover", TRUE)
    /\ hover = Some(1)
    /\ ~hover_highlight(1)
    /\ out.redraw = <<2>>
    /\ hover_highlight(2)

\* set_hover has just been called with the target that was stored, while the
\* shell shows the cursor of a grab and not the hover icon.
C20_WitnessSame ==
    /\ op = OpRec("set_hover", FALSE)
    /\ hover # None
    /\ cursor_icon # hover_icon
    /\ out = NoOut

\* ---------------------------------------------- pan requests: properties
\* What C19 says of an accepted pan request on e from a source of the kind
\* touch, when the list has a gesture on e; pan is the index pair stored in
\* the new grab
C19_Requested(e, touch, pan) ==
    LET gi == Min(GesturesOn(pan_grab, e))
    IN /\ ~panicked'
       /\ Cardinality(GesturesOn(pan_grab', e)) = 1
       /\ LET gj == Min(GesturesOn(pan_grab', e))
          IN IF pan_grab[gi + 1].source_is_touch = touch
             THEN /\ gj = gi
                  /\ Len(pan_grab') = Len(pan_grab)
                  /\ pan_grab'[gj + 1].n = pan_grab[gi + 1].n + 1
             ELSE /\ pan_grab'[gj + 1].source_is_touch = touch
                  /\ pan_grab'[gj + 1].n = 1
                  /\ pan = <<gj, 0>>

\* In every state the list has at most one gesture per widget
C19_OnePerElement ==
    \A e \in PanWidgets : Cardinality(GesturesOn(pan_grab, e)) <= 1

\* C19: a pan request on an element that has a gesture of the same source
\* kind adds one point to that gesture and starts no second gesture; with the
\* other source kind the old gesture is removed first, and afterwards the list
\* has exactly one gesture for the element, of the new kind, with one point,
\* which the new grab references at slot 0; the list never has two gestures
\* for one element.
C19_OneGesturePerElement ==
    /\ []C19_OnePerElement
    /\ [][\A e \in PanWidgets, c \in PanCoords :
             GesturesOn(pan_grab, e) # {} =>
                /\ \A b \in PressButtons :
                      mouse_grab = None /\ RequestGrabMouse(e, b, "PanFull", c) =>
                         C19_Requested(e, FALSE, mouse_grab'[1].pan_grab)
                /\ \A t \in TouchIds \ DOMAIN touch_grab :
                      RequestGrabTouch(e, t, "PanFull", c) =>
                         C19_Requested(e, TRUE, touch_grab'[t].pan_grab)]_vars

\* A press in a pan mode on a widget whose gesture, the first of the list,
\* belongs to a touch that is still down has panicked in remove_pan.
C19_Witness ==
    /\ panicked
    /\ op.name = "request_grab_mouse"
    /\ mouse_grab = None
    /\ pan_grab # <<>>
    /\ pan_grab[1].source_is_touch
    /\ \E t \in DOMAIN touch_grab : touch_grab[t].pan_grab = <<0, 0>>

\* The calls of ShellWindow::set_cursor_icon made by the last call
CursorCalls == {i \in 1..Len(out.order) : out.order[i][1] = "cursor"}

\* While no press grab is active the shell shows the stored hover icon
C21_ShellShowsHoverIcon == mouse_grab = None => cursor_icon = hover_icon

\* set_hover with a new target: during a press grab the icon of the target is
\* stored and the shell is not called; without one the shell is called with
\* the icon exactly when it differs from the stored one
C21_Step(b) ==
    hover # b /\ b # None =>
        /\ hover_icon' = HoverIcon(b[1])
        /\ IF mouse_grab # None
           THEN CursorCalls' = {} /\ cursor_icon' = cursor_icon
           ELSE IF HoverIcon(b[1]) # hover_icon
           THEN out'.order = <<<<"cursor", HoverIcon(b[1])>>>> /\ cursor_icon' = HoverIcon(b[1])
           ELSE CursorCalls' = {} /\ cursor_icon' = cursor_icon

\* C21: the icon computed for a new hover target is passed to the shell only
\* when no press grab is active; during a press grab set_hover stores the icon
\* and does not call set_cursor_icon; so, over any hover changes and endings
\* of press grabs, the shell's icon is the stored hover icon whenever no press
\* grab is active.
C21_CursorFollowsHover ==
    /\ []C21_ShellShowsHoverIcon
    /\ [][\A b \in HoverTargets : SetHover(b) => C21_Step(b)]_vars

\* A press grab that showed its own cursor has just ended after the hover
\* target moved to the EditBox under it: the shell now shows the EditBox's
\* icon, which set_hover had only stored.
C21_Witness ==
    /\ op = OpRec("end_mouse_grab", TRUE)
    /\ hover = Some(1)
    /\ hover_icon = "Text"
    /\ cursor_icon = "Text"
    /\ out.order = <<<<"cursor", "Text">>>>
    /\ out.redraw = <<2>>

\* ------------------------------------------ endings of nothing: properties
\* No field of the manager changes and the call has no effect on the shell or
\* on a widget
NothingDone ==
    /\ UNCHANGED <<panVars, focusVars, treeVars, hoverVars>>
    /\ out' = NoOut

\* The index pairs that address no gesture of the list: the sentinel, and the
\* indices from the length of the list on
AbsentGestures ==
    {NoPan} \cup {<<i, slot>> : i \in Len(pan_grab)..(Len(pan_grab) + 1), slot \in 0..1}

\* remove_pan_grab on an index that addresses no gesture gives the state back
C22_RemoveAbsentGesture ==
    \A g \in AbsentGestures : remove_pan_grab(PanState, g) = PanState

\* C22: the removal of what is absent does nothing: remove_pan_grab with the
\* sentinel or with an index beyond the end of the list, end_mouse_grab
\* without a press grab, remove_touch of an unknown touch and end_key_event of
\* a scancode that is not recorded each leave the whole state as it was.
C22_AbsentRemovalNoOp ==
    /\ []C22_RemoveAbsentGesture
    /\ [][/\ \A b \in Buttons : mouse_grab = None /\ EndMouseGrab(b) => NothingDone
          /\ \A t \in EndedTouches :
                t \notin DOMAIN touch_grab /\ TouchEnd(t) => NothingDone
          /\ \A sc \in Scancodes :
                sc \notin DOMAIN key_depress /\ KeyUp(sc) => NothingDone]_vars

\* A key-up has just come for a scancode that was not recorded, while
\* another key is held on a widget, a press grab is active and a gesture is
\* in the list.
C22_Witness ==
    /\ op = OpRec("key_up", FALSE)
    /\ DOMAIN key_depress # {}
    /\ mouse_grab # None
    /\ pan_grab # <<>>
    /\ ~panicked

\* A touch has just ended whose grab was in the mode Grab, so that
\* remove_pan_grab was called with the sentinel, while a gesture of the press
\* is in the list.
C22_WitnessSentinel ==
    /\ op = OpRec("touch_end", TRUE)
    /\ touch_grab = <<>>
    /\ mouse_grab # None
    /\ pan_grab # <<>>
    /\ mouse_grab[1].pan_grab = <<0, 0>>
    /\ Len(pan_grab) = 1
    /\ ~pan_grab[1].source_is_touch
    /\ ~panicked

\* ------------------------------------------- stale identifiers: properties
\* The identifiers of the widgets of the tree
TreeIds == {core_id[b] : b \in DOMAIN core_id}

\* The widget a key-down of k resolves to when it is neither forwarded to the
\* widget with character focus nor a Tab: the target of the rules for
\* navigation focus, popups and the fallback, else that of the first layer
Resolved(k) ==
    IF NavTarget(KeyState, k, modifiers.shift) # None
    THEN Some(NavTarget(KeyState, k, modifiers.shift)[1][1])
    ELSE FirstLayerTarget(k)

\* No widget gets an event, and the held keys, the focus fields, the popups
\* and the grabs are as before
C23_NoOp ==
    /\ out'.sent = <<>>
    /\ UNCHANGED <<key_depress, char_focus, sel_focus, nav_focus, nav_fallback, popups>>
    /\ UNCHANGED panVars

\* C23: a key-down that resolves to a widget that is not in the tree, and a
\* set_hover with an identifier that find_leaf does not find, deliver no event
\* and leave the held keys, the focus fields, the popups and the grabs as
\* they were.
C23_StaleIsNoOp ==
    [][/\ op'.name = "key_down" /\ ~(char_focus /\ sel_focus # None) =>
             \A k \in Keys \ {"Tab"}, r \in Responses :
                Resolved(k) # None /\ Resolved(k)[1] \notin TreeIds =>
                   C23_NoOp \/ ~KeyDown(k, RouteScancode, r)
       /\ \A id \in 1..MaxNodes :
             find_leaf(id) = None /\ SetHover(Some(id)) => C23_NoOp]_vars

\* A key-down has just resolved to an Activate for a widget that is not in
\* the tree: no event was delivered, and the key is recorded as held on it.
C23_Witness ==
    /\ op.name = "key_down"
    /\ out.sent = <<>>
    /\ \E sc \in DOMAIN key_depress : key_depress[sc] \notin TreeIds

\* ------------------------------------------------------ timers: properties
\* How often the callback id was triggered
TimesFired(trig, id) == Cardinality({j \in DOMAIN trig : trig[j] = id})

\* The entry e is due when the clock reads t
Due(e, t) == e.at <= t

\* The instant of the periodic entry e after a resume at t: its interval
\* added, as often as it takes, until the instant is after t
Advanced(e, t) ==
    CHOOSE a \in e.at..(t + e.dur[1]) :
        a > t /\ a - e.dur[1] <= t /\ (a - e.at) % e.dur[1] = 0

\* The list a resume at t leaves: the entries that were not due as they were,
\* the due periodic ones with their instant advanced, in the order they had
RECURSIVE AfterResume(_, _)
AfterResume(ts, t) ==
    IF ts = <<>> THEN <<>>
    ELSE LET e == ts[1]
             rest == AfterResume(Tail(ts), t)
         IN IF ~Due(e, t) THEN <<e>> \o rest
            ELSE IF e.dur = None THEN rest
            ELSE <<[e EXCEPT !.at = Advanced(e, t)]>> \o rest

\* C24: a timer resume triggers the callback of every entry whose instant is
\* at or before the clock exactly once and that of no other entry; it leaves
\* the due periodic entries rescheduled to an instant after the clock, drops
\* the due entries without an interval, and keeps the others as they were and
\* in their order.
C24_TimerResume ==
    [][op'.name = "timer_resume" =>
          /\ \A i \in DOMAIN timeouts :
                TimesFired(fired', timeouts[i].id) = IF Due(timeouts[i], now') THEN 1 ELSE 0
          /\ timeouts' = AfterResume(timeouts, now')]_vars

\* A timer resume has returned, and an entry whose instant is at or before
\* the clock is still in the list, its callback not triggered
C24_Witness ==
    /\ op.name = "timer_resume"
    /\ \E i \in DOMAIN timeouts :
          /\ Due(timeouts[i], now)
          /\ TimesFired(fired, timeouts[i].id) = 0

\* C26: the wake instant the window reports is the instant of a pending
\* entry that no pending entry is before, and None exactly when no entry is
\* pending; after a timer resume the pending entries are the rescheduled and
\* the untouched ones, the entries dropped by the resume not among them.  An
\* entry is rescheduled to an instant after what the clock read after its
\* callback.
C26_NextWake ==
    /\ resume = None <=> timeouts = <<>>
    /\ resume # None =>
          /\ \E i \in DOMAIN timeouts : timeouts[i].at = resume[1]
          /\ \A i \in DOMAIN timeouts : resume[1] <= timeouts[i].at
    /\ op.name = "timer_resume" =>
          \A j \in DOMAIN fired : \A i \in DOMAIN timeouts :
              timeouts[i].id = fired[j] =>
                  timeouts[i].dur # None /\ timeouts[i].at > read[j]

\* A timer resume has dropped an entry without an interval and rescheduled a
\* periodic one, and the wake instant it returned is that of the rescheduled
\* entry, an entry with a later instant pending as well
C26_Witness ==
    /\ op.name = "timer_resume"
    /\ Len(fired) = 2
    /\ Len(timeouts) = 2
    /\ resume # None
    /\ \E i, k \in DOMAIN timeouts :
          /\ timeouts[i].id \in {fired[1], fired[2]}
          /\ timeouts[i].at = resume[1]
          /\ timeouts[k].at > resume[1]

\* A timer resume has returned the instant of an entry it rescheduled, and
\* the clock, which went on during a later callback, has reached that instant
C26_WitnessLate ==
    /\ op.name = "timer_resume"
    /\ Len(fired) >= 2
    /\ resume # None /\ resume[1] <= now
    /\ \E i \in DOMAIN timeouts :
          /\ timeouts[i].id = fired[1]
          /\ timeouts[i].at = resume[1]
          /\ timeouts[i].at > read[1]

\* ---------------------------------------------- toolkit actions: properties
\* The greatest of the actions of the set s in the order None < Redraw <
\* Reconfigure < Close < CloseAll, None for the empty set
Greatest(s) ==
    IF s = {} THEN "None"
    ELSE CHOOSE a \in s : \A b \in s : Rank(b) <= Rank(a)

\* C27: pop_action returns the greatest, in the order None < Redraw <
\* Reconfigure < Close < CloseAll, of the actions sent since the previous
\* pop_action, and a pop_action right after another returns None.
C27_PopAction ==
    [][op'.name = "pop_action" =>
          /\ popped' = Greatest(since_pop)
          /\ op.name = "pop_action" => popped' = "None"]_vars

\* A pop_action has returned Close, the greatest of the actions sent before
\* it, and has left None stored
C27_Witness ==
    /\ op.name = "pop_action"
    /\ popped = "Close"
    /\ since_pop = {}
    /\ action = "None"

\* ------------------------------------- character focus and navigation focus
\* C25: a request for character focus for a widget makes that widget the
\* navigation focus, also when the widget has selection focus already; giving
\* character focus up leaves navigation focus as it was.
C25_CharFocusSetsNavFocus ==
    [][\A w \in {None} \cup {Some(KeyNav[i]) : i \in 1..Len(KeyNav)} :
          \/ IF w # None THEN nav_focus' = w ELSE nav_focus' = nav_focus
          \/ ~SetCharFocus(w)]_vars

\* A widget has asked for character focus and has got navigation focus with
\* it: the call redrew it and queued no notification, which is what happens
\* when the widget had selection focus already or no widget had it
C25_Witness ==
    /\ op.name = "set_char_focus"
    /\ last_char # None
    /\ sel_focus = last_char
    /\ nav_focus = last_char
    /\ char_focus
    /\ out.redraw = <<last_char[1]>>
    /\ pending = <<>>

\* ------------------------------------------------------- unhandled Escape
\* The place of the delivery among the deliveries and closings of the call
SendPos(order) == CHOOSE i \in DOMAIN order : order[i][1] = "send"

\* What C28 says of a key-down of k whose resolved event was delivered and
\* left unhandled: the popups that were open at the delivery are those the
\* lookup had not closed before it
C28_AfterUnhandled(k) ==
    LET pos == SendPos(out'.order)
        open == SubSeq(popups, 1, Len(popups) - (pos - 1))
        after == SubSeq(out'.order, pos + 1, Len(out'.order))
    IN IF k = "Escape"
       THEN IF open # <<>>
            THEN /\ after = <<<<"close", open[Len(open)].win>>>>
                 /\ popups' = SubSeq(open, 1, Len(open) - 1)
                 /\ nav_focus' = nav_focus
            ELSE /\ after = <<>>
                 /\ popups' = open
                 /\ nav_focus' = None
       ELSE /\ after = <<>>
            /\ popups' = open
            /\ nav_focus' = nav_focus

\* C28: when the event a key-down resolved (by the rules for navigation
\* focus, popups and the fallback, or by the accelerator lookup) is delivered
\* and left unhandled and the key is Escape, the popup that is topmost at the
\* delivery is closed and no other, if a popup is open; otherwise navigation
\* focus is cleared; after an unhandled event of any other key no popup is
\* closed and navigation focus is as before.
C28_UnhandledEscape ==
    [][op'.name = "key_down" /\ ~(char_focus /\ sel_focus # None) =>
          \A k \in RouteKeys \ {"Tab"}, r \in Responses :
             \/ out'.sent = <<>>
             \/ Answer(out'.sent[1].to, out'.sent[1].ev, r) # "Unhandled"
             \/ C28_AfterUnhandled(k)
             \/ ~KeyDown(k, RouteScancode, r)]_vars

\* An Escape has been delivered to the parent of the topmost of two popups
\* and left unhandled: that popup was closed after the delivery and the other
\* is open
C28_Witness ==
    /\ op.name = "key_down"
    /\ Len(out.sent) = 1
    /\ out.sent[1].ev = Command("Escape", modifiers.shift)
    /\ Len(out.closed) = 1
    /\ out.order = <<<<"send", out.sent[1].to>>, <<"close", out.closed[1]>>>>
    /\ Len(popups) = 1
    /\ popups[1].win # out.closed[1]

\* An Escape has been delivered to the widget with navigation focus while no
\* popup was open and left unhandled: navigation focus is cleared
C28_WitnessNavFocus ==
    /\ op.name = "key_down"
    /\ Len(out.sent) = 1
    /\ out.sent[1].ev = Command("Escape", modifiers.shift)
    /\ out.closed = <<>>
    /\ popups = <<>>
    /\ nav_focus = None
    /\ out.redraw = <<out.sent[1].to>>

\* ------------------------------------------------------ lookup: properties
\* C29: in a tree whose identifiers the configuration pass assigned, a lookup
\* of id from the element W, by find or by find_mut, gives the element that
\* has id when that element is W or below W, and None when no element of W's
\* subtree has id; the two lookups give the same.
C29_FindInSubtree ==
    Configured /\ found # None =>
        LET W == found[1].from
            id == found[1].id
        IN /\ \A b \in Subtree(W) :
                 core_id[b] = id => found[1].res = Some(b) /\ found[1].res_mut = Some(b)
           /\ (\A b \in Subtree(W) : core_id[b] # id) =>
                 found[1].res = None /\ found[1].res_mut = None
           /\ found[1].res = found[1].res_mut

\* A lookup from an element that is not the root has found an element below
\* it that is not its first child
C29_Witness ==
    /\ Configured
    /\ found # None
    /\ found[1].from # TreeRoot
    /\ found[1].res # None
    /\ found[1].res_mut = found[1].res
    /\ found[1].res[1] \in Subtree(found[1].from) \ {found[1].from}
    /\ found[1].res[1] # Children(tree_parent, found[1].from)[1]

\* A lookup from an element that is not the root, of the identifier of an
\* element outside its subtree, has found nothing
C29_WitnessOutside ==
    /\ Configured
    /\ found # None
    /\ found[1].from # TreeRoot
    /\ found[1].res = None
    /\ found[1].res_mut = None
    /\ \E b \in DOMAIN tree_parent \ Subtree(found[1].from) : core_id[b] = found[1].id

\* ----------------------------------------------------- EditBox: properties
\* The kind of edit a received character makes: an insert, a backspace, a
\* clear, a paste, an undo, or none (the box is new, or the character is one
\* of the others)
EditKind(c) ==
    IF c \in Printable THEN "Insert"
    ELSE IF c = "BS" THEN "Backspace"
    ELSE IF c = "DEL" THEN "Clear"
    ELSE IF c = "SYN" THEN "Paste"
    ELSE IF c = "SUB" THEN "Undo"
    ELSE IF c = "new" THEN "New"
    ELSE "None"
RunKinds == {"Insert", "Backspace", "Clear", "Paste"}

\* The place in the history h of the last edit at or before place i; place 1
\* is the making of the box
RECURSIVE LastEditAt(_, _)
LastEditAt(h, i) == IF EditKind(h[i].c) # "None" THEN i ELSE LastEditAt(h, i - 1)

\* The place of the first edit of the run of edits of one kind that ends at
\* place j, first being the earliest edit of the run found so far and i the
\* next place to look at
RECURSIVE RunStart(_, _, _)
RunStart(h, i, first) ==
    IF EditKind(h[i].c) = "None" THEN RunStart(h, i - 1, first)
    ELSE IF EditKind(h[i].c) = EditKind(h[first].c) THEN RunStart(h, i - 1, i)
    ELSE first

\* No call of set_text or set_editable is in the history h from place i on:
\* the box has been changed by received characters only
CharsOnlySince(h, i) == \A k \in i..Len(h) : h[k].c \notin {"set_text", "set_editable"}

\* What C30 says of an undo character received after the history h
C30_Undo(h) ==
    LET j == LastEditAt(h, Len(h))
    IN IF EditKind(h[j].c) \in RunKinds
       THEN LET s == RunStart(h, j - 1, j)
            IN CharsOnlySince(h, s) => text' = h[s - 1].text
       ELSE IF EditKind(h[j].c) = "Undo" /\ EditKind(h[LastEditAt(h, j - 1)].c) \in RunKinds
       THEN LET e == LastEditAt(h, j - 1)
            IN CharsOnlySince(h, RunStart(h, e - 1, e)) => text' = h[e].text
       ELSE TRUE

\* C30: in an editable EditBox an undo character received after a run of
\* consecutive edits of one kind (inserts, backspaces, clears or pastes)
\* leaves the text that was there before the first edit of the run, and an
\* undo character received after that one leaves the text that was there
\* after the run; an EditBox that is not editable keeps its text and its undo
\* state whatever character it receives.  The run and the undo characters
\* are what the box receives; no call of set_text or set_editable is among
\* them.
C30_UndoRedo ==
    [][op'.name = "received_char" =>
          IF editable
          THEN received'[Len(received')].c = "SUB" => C30_Undo(received)
          ELSE UNCHANGED <<text, old_state, last_edit>>]_vars

\* An undo and a second undo have followed a run of two inserts in an
\* editable EditBox: the text is the one after the run
C30_Witness ==
    /\ editable
    /\ Len(received) = 5
    /\ received[2].c \in Printable
    /\ received[3].c \in Printable
    /\ received[4].c = "SUB"
    /\ received[5].c = "SUB"
    /\ received[4].text = received[1].text
    /\ text = received[3].text
    /\ Len(text) = Len(received[1].text) + 2

\* An EditBox that is not editable has received a character
C30_WitnessFixed ==
    /\ ~editable
    /\ op.name = "received_char"
    /\ Len(received) > 1
    /\ text = received[1].text
    /\ old_state = None

\* ------------------------------------------- pan references: properties
\* The press grab and the touch grabs as <<stored pan reference, start
\* element, source is touch>>
GrabRefs ==
    {<<touch_grab[t].pan_grab, touch_grab[t].start_id, TRUE>> : t \in DOMAIN touch_grab}
        \cup (IF mouse_grab # None
              THEN {<<mouse_grab[1].pan_grab, mouse_grab[1].start_id, FALSE>>}
              ELSE {})

\* C32: every press or touch grab whose stored pan index is not the sentinel
\* u16::MAX refers to an entry inside the gesture list whose target element is
\* the element that started the grab and whose source kind is the grab's; this
\* also holds after a gesture has been removed on a source-kind mismatch while
\* other gestures exist.
C32_GrabRefersToOwnGesture ==
    \A r \in GrabRefs :
        r[1][1] # U16_MAX =>
            /\ r[1][1] < Len(pan_grab)
            /\ pan_grab[r[1][1] + 1].id = r[2]
            /\ pan_grab[r[1][1] + 1].source_is_touch = r[3]

\* A press on widget 2 has removed the touch gesture of widget 2 while the
\* touch gesture of widget 1 exists: the touch that started on widget 2 now
\* stores the index of the gesture of widget 1.
C32_Witness ==
    /\ op = OpRec("request_grab_mouse", TRUE)
    /\ ~panicked
    /\ Len(pan_grab) = 2
    /\ pan_grab[1].id = 1
    /\ pan_grab[2].id = 2
    /\ ~pan_grab[2].source_is_touch
    /\ \E t \in DOMAIN touch_grab :
          /\ touch_grab[t].start_id = 2
          /\ touch_grab[t].pan_grab[1] = 0

\* C33: in every state in which no press grab and no touch grab exists the
\* list of pan gestures is empty.
C33_Quiescence ==
    (mouse_grab = None /\ DOMAIN touch_grab = {}) => pan_grab = <<>>

\* The last grab has just ended and no gesture is left
C33_Witness ==
    /\ op.name \in {"touch_end", "end_mouse_grab"}
    /\ op.ret
    /\ ~panicked
    /\ mouse_grab = None
    /\ DOMAIN touch_grab = {}
    /\ pan_grab = <<>>

\* C34: remove_pan never subtracts 1 from a stored pan index equal to 0.  A
\* subtraction from 0 panics in a build with overflow checks and leaves 65535
\* in one without, so no call of remove_pan panics and none turns a stored
\* index 0 into 65535.
C34_NoUnderflow ==
    [][\A i \in GestureIndices :
          CallsRemovePan(i) =>
              /\ ~panicked'
              /\ \A t \in DOMAIN touch_grab \cap DOMAIN touch_grab' :
                    touch_grab[t].pan_grab[1] = 0 => touch_grab'[t].pan_grab[1] # U16_MAX
              /\ (mouse_grab # None /\ mouse_grab' # None /\ mouse_grab[1].pan_grab[1] = 0)
                    => mouse_grab'[1].pan_grab[1] # U16_MAX]_vars

\* Without overflow checks: a touch in a pan mode is left with the sentinel
\* by the removal of gesture 0
C34_Witness ==
    /\ ~panicked
    /\ \E t \in DOMAIN touch_grab :
          /\ touch_grab[t].mode # "Grab"
          /\ touch_grab[t].pan_grab[1] = U16_MAX

\* With overflow checks: the removal of gesture 0 panics
C34_WitnessPanic ==
    /\ panicked
    /\ \E t \in DOMAIN touch_grab : touch_grab[t].pan_grab[1] = 0

\* ------------------------------------------------- pan slots: the model
\* Presses and touches in pan mode on two widgets.  Touch t arrives at the
\* coordinate t, the press at the origin, so the coordinate pairs of a gesture
\* tell which touch wrote them.
SlotCoord(t) == t

NextSlots ==
    \/ /\ mouse_grab = None
       /\ \E id \in PanWidgets : RequestGrabMouse(id, "Left", "PanFull", DefaultCoord)
    \/ \E id \in PanWidgets, t \in TouchIds \ DOMAIN touch_grab :
          RequestGrabTouch(id, t, "PanFull", SlotCoord(t))
    \/ EndMouseGrab("Left")
    \/ \E t \in DOMAIN touch_grab : TouchEnd(t)

SpecSlots == Init /\ [][NextSlots]_vars

\* --------------------------------------------- pan slots: properties
\* C35: assert!(grab.source_is_touch) in remove_pan_grab holds on every
\* reachable execution: whenever a grab can release a point from a gesture
\* that has at least one point left afterwards, the gesture's source is touch.
C35_AssertHolds ==
    \A gi \in GestureIndices :
        (GrabsOn(gi) # {} /\ pan_grab[gi + 1].n # 1) => pan_grab[gi + 1].source_is_touch

\* While a press gesture exists, touch 1 has ended and has released its point
\* from the gesture of touch 2, which has one point left: the first pair of the
\* gesture was written by touch 1 and touch 2 has moved to slot 0.
C35_Witness ==
    /\ op = OpRec("touch_end", TRUE)
    /\ ~panicked
    /\ 1 \notin DOMAIN touch_grab
    /\ \E gi \in GestureIndices :
          /\ pan_grab[gi + 1].source_is_touch
          /\ pan_grab[gi + 1].n = 1
          /\ pan_grab[gi + 1].coords[1] = <<SlotCoord(1), SlotCoord(1)>>
          /\ GrabsOn(gi) = {2}
          /\ touch_grab[2].pan_grab = <<gi, 0>>
    /\ \E gj \in GestureIndices : ~pan_grab[gj + 1].source_is_touch

\* The touch t releases a point of a gesture that has a point left afterwards
ReleasesPoint(t) ==
    /\ touch_grab[t].pan_grab[1] < Len(pan_grab)
    /\ pan_grab[touch_grab[t].pan_grab[1] + 1].n > 1

\* The slot of the touch grab g addresses a coordinate pair of its gesture in
\* the list pg, and the pair holds the coordinates of the touch
OwnCoords(pg, g) ==
    /\ g.pan_grab[1] < Len(pg)
    /\ g.pan_grab[2] < MAX_PAN_GRABS
    /\ pg[g.pan_grab[1] + 1].coords[g.pan_grab[2] + 1] = <<g.coord, g.coord>>

\* C36: when one of several touches of a pan gesture ends, the slot index of
\* every remaining touch of the gesture afterwards addresses a coordinate pair
\* holding that touch's own coordinates; after the touch in slot 0 of a
\* two-point gesture ends, slot 0 holds the coordinates of the touch formerly
\* in slot 1.
C36_SlotsFollow ==
    [][\A t \in DOMAIN touch_grab :
          (TouchEnd(t) /\ ReleasesPoint(t) /\ ~panicked') =>
              \A u \in DOMAIN touch_grab' :
                  touch_grab[u].pan_grab[1] = touch_grab[t].pan_grab[1]
                      => OwnCoords(pan_grab', touch_grab'[u])]_vars

\* Touches 1 and 2 held a pan on one widget and touch 1, in slot 0, has
\* ended: touch 2 is in slot 0, and slot 0 holds the coordinates of touch 1.
C36_Witness ==
    /\ op = OpRec("touch_end", TRUE)
    /\ ~panicked
    /\ mouse_grab = None
    /\ DOMAIN touch_grab = {2}
    /\ touch_grab[2].pan_grab = <<0, 0>>
    /\ touch_grab[2].coord = SlotCoord(2)
    /\ Len(pan_grab) = 1
    /\ pan_grab[1].n = 1
    /\ pan_grab[1].coords = <<<<SlotCoord(1), SlotCoord(1)>>, <<SlotCoord(2), SlotCoord(2)>>>>

\* ------------------------------------------------ held keys: properties
\* The widgets recorded as held by a key
HeldBy(kd) == {kd[s] : s \in DOMAIN kd}

\* How often a call asked for a redraw of e
Redraws(redraws, e) == Len(SelectSeq(redraws, LAMBDA w : w = e))

\* What C37 says of a key-down that delivers Activate to e while a key is
\* recorded as held on e: no record is added or changed, and e is redrawn
\* only if the call moved navigation focus to it
C37_Second(e) ==
    /\ key_depress' = key_depress
    /\ Redraws(out'.redraw, e) = IF nav_focus' # nav_focus /\ nav_focus' = Some(e)
                                 THEN 1 ELSE 0

\* No two scancodes are recorded on one widget
C37_Injective ==
    \A s1, s2 \in DOMAIN key_depress : key_depress[s1] = key_depress[s2] => s1 = s2

\* C37: the key-depress map is injective in every reachable state; a second
\* activation of an element that is already recorded as depressed adds no
\* record and requests no redraw; the first key-up of a recorded scancode
\* clears the depressed state of the element recorded for it.
C37_KeyDepress ==
    /\ []C37_Injective
    /\ [][/\ op'.name = "key_down" =>
                \A e \in HeldBy(key_depress) :
                    Activations(out'.sent, e) > 0 => C37_Second(e)
          /\ op'.name = "key_up" =>
                \A sc \in DOMAIN key_depress :
                    KeyUp(sc) =>
                        /\ sc \notin DOMAIN key_depress'
                        /\ key_depress[sc] \notin HeldBy(key_depress')
                        /\ Redraws(out'.redraw, key_depress[sc]) = 1]_vars

\* Two keys are held, on two widgets, and the last key-down was a second
\* activation of one of them: it got Activate and no redraw was asked for
C37_Witness ==
    /\ op.name = "key_down"
    /\ Cardinality(DOMAIN key_depress) = 2
    /\ \E e \in HeldBy(key_depress) :
          /\ Activations(out.sent, e) = 1
          /\ out.redraw = <<>>

\* The key of one of two held widgets has gone up
C37_WitnessUp ==
    /\ op = OpRec("key_up", TRUE)
    /\ Cardinality(DOMAIN key_depress) = 1
    /\ Len(out.redraw) = 1
    /\ out.redraw[1] \notin HeldBy(key_depress)

\* --------------------------------------- giving up character focus: properties
\* What C38 says of set_char_focus(None)
C38_Cleared ==
    IF char_focus /\ sel_focus # None
    THEN /\ pending' = Append(pending, PendingOf("LostCharFocus", sel_focus[1]))
         /\ ~char_focus'
         /\ sel_focus' = sel_focus
    ELSE pending' = pending

\* C38: set_char_focus(None) while X holds selection focus and character
\* focus is active queues exactly one LostCharFocus(X) and no LostSelFocus,
\* makes character focus inactive and leaves selection focus on X; when
\* character focus was not active, or no widget holds selection focus, it
\* queues nothing; set_char_focus(Some(X)) while X holds selection focus
\* queues nothing.  set_char_focus(None) is called by a widget directly, or by
\* a key-down of Escape that the widget with character focus does not handle.
C38_GiveUpCharFocus ==
    [][/\ op'.name = "set_char_focus" =>
             /\ SetCharFocus(None) => C38_Cleared
             /\ \A x \in 1..MaxNodes :
                   (sel_focus = Some(x) /\ SetCharFocus(Some(x))) => pending' = pending
       /\ op'.name = "key_down" =>
             \A sc \in Scancodes :
                (char_focus /\ sel_focus # None /\ KeyDown("Escape", sc, "Unhandled"))
                    => C38_Cleared]_vars

\* A widget has just given up character focus: it keeps selection focus and
\* the queue holds its LostCharFocus and nothing else
C38_Witness ==
    /\ op.name = "set_char_focus"
    /\ ~char_focus
    /\ sel_focus # None
    /\ pending = <<PendingOf("LostCharFocus", sel_focus[1])>>

\* The widget with selection focus has just asked for character focus again
\* and nothing is queued
C38_WitnessSame ==
    /\ op.name = "set_char_focus"
    /\ char_focus
    /\ sel_focus # None
    /\ last_char = sel_focus
    /\ pending = <<>>
    /\ out.redraw = <<>>

\* ------------------------------------------ events to popups first: properties
\* The parents of the j topmost popups all leave the event unhandled
TopUnhandled(answers, j) ==
    \A i \in (Len(popups) - j + 1)..Len(popups) : answers[popups[i].parent] = "Unhandled"

\* The number of popups send_popup_first closes: those on top of the first
\* popup, from the top, whose parent handles the event
ClosedCount(answers) ==
    CHOOSE j \in 0..Len(popups) :
        /\ TopUnhandled(answers, j)
        /\ j < Len(popups) => ~TopUnhandled(answers, j + 1)

\* The deliveries and closings C31 says send_popup_first(id, event) makes, in
\* order: for each closed popup, from the top, the delivery to its parent and
\* then its closing; last the delivery to the parent that handles the event,
\* or to id when every popup has been closed
C31_Order(id, answers) ==
    LET n == Len(popups)
        k == ClosedCount(answers)
    IN [j \in 1..(2 * k + 1) |->
          IF j = 2 * k + 1
          THEN <<"send", IF k < n THEN popups[n - k].parent ELSE id>>
          ELSE IF j % 2 = 1 THEN <<"send", popups[n - (j + 1) \div 2 + 1].parent>>
          ELSE <<"close", popups[n - j \div 2 + 1].win>>]

\* C31: send_popup_first(id, event) offers the event to the parent of the
\* topmost popup first; if that parent handles it the event is not delivered
\* to id and no popup is closed; each popup whose parent returns Unhandled is
\* closed before the parent of the next lower popup is tried; the event is
\* delivered to id only after every popup has been closed; a parent is tried
\* at most once per popup that was open at the call.
C31_PopupFirst ==
    [][op'.name = "send_popup_first" =>
          \A id \in WidgetIds, ev \in RoutedEvents, answers \in [WidgetIds -> Responses] :
              SendPopupFirst(id, ev, answers) =>
                  /\ out'.order = C31_Order(id, answers)
                  /\ popups' = SubSeq(popups, 1, Len(popups) - ClosedCount(answers))
                  /\ Len(out'.sent) <= Len(popups) + 1
                  /\ (popups # <<>> /\ answers[popups[Len(popups)].parent] # "Unhandled")
                        => /\ out'.closed = <<>>
                           /\ out'.sent = <<[to |-> popups[Len(popups)].parent, ev |-> ev]>>
                  /\ (\E i \in 1..Len(out'.sent) :
                         /\ out'.sent[i].to = id
                         /\ \A p \in 1..Len(popups) : popups[p].parent # id)
                        => popups' = <<>>]_vars

\* Two popups were open; the parent of the upper one left the event
\* unhandled, the parent of the lower one handled it: the upper popup is
\* closed, the lower one is open and the event went to the two parents only
C31_Witness ==
    /\ op = OpRec("send_popup_first", TRUE)
    /\ Len(popups) = 1
    /\ Len(out.closed) = 1
    /\ Len(out.order) = 3
    /\ out.order[2] = <<"close", out.closed[1]>>
    /\ out.order[3] = <<"send", popups[1].parent>>

\* Two popups were open and both parents left the event unhandled: both are
\* closed and the event has been delivered to a widget that is no parent
C31_WitnessAll ==
    /\ op = OpRec("send_popup_first", TRUE)
    /\ popups = <<>>
    /\ Len(out.closed) = 2
    /\ Len(out.order) = 5
    /\ out.order[5] = <<"send", 4>>

\* ------------------------------------------------- ComboBox: properties
\* The popups of the stack that widget c has opened
PopupsOf(c) == {i \in 1..Len(popups) : popups[i].parent = c}

\* C39: ComboBox.popup_id is Some(w) exactly when the popup window w that the
\* ComboBox opened is in the manager's popup stack; after the manager has
\* closed the popup itself (unhandled Escape, an accelerator matched below the
\* popup, send_popup_first) popup_id is None again, so the next Activate
\* opens the popup instead of closing a window that is closed already.
C39_PopupIdTracksStack ==
    \A c \in combo :
        /\ popup_id # None => \E i \in PopupsOf(c) : popups[i].win = popup_id[1]
        /\ PopupsOf(c) # {} => popup_id # None

\* The next Activate of C39: a key-down that delivers Activate to a ComboBox
\* that has no popup in the stack opens one
C39_ActivateOpens ==
    [][op'.name = "key_down" =>
          \A c \in combo :
              (PopupsOf(c) = {} /\ Activations(out'.sent, c) > 0)
                  => /\ PopupsOf(c)' # {}
                     /\ out'.closed = <<>>]_vars

\* The manager has closed the popup of the ComboBox after an Escape that the
\* ComboBox left unhandled, and popup_id still names the window
C39_Witness ==
    /\ op = OpRec("key_down", TRUE)
    /\ popups = <<>>
    /\ popup_id # None
    /\ out.closed = <<popup_id[1]>>
    /\ out.sent = <<[to |-> 4, ev |-> Command("Escape", FALSE)]>>

\* The same after a key found in the root's accelerator layer, below the popup
C39_WitnessAccel ==
    /\ op = OpRec("key_down", TRUE)
    /\ popups = <<>>
    /\ popup_id # None
    /\ out.order = <<<<"close", popup_id[1]>>, <<"send", 2>>>>

\* The same after send_popup_first
C39_WitnessRouted ==
    /\ op = OpRec("send_popup_first", TRUE)
    /\ popups = <<>>
    /\ popup_id # None
    /\ out.closed = <<popup_id[1]>>

\* An entry of the popup has answered with its message: the ComboBox has
\* closed the popup itself and popup_id is None
C39_WitnessChoice ==
    /\ op = OpRec("key_down", TRUE)
    /\ popups = <<>>
    /\ popup_id = None
    /\ out.sent = <<[to |-> 3, ev |-> Activate]>>
    /\ Len(out.closed) = 1
    /\ out.redraw = <<4, 3>>

====
